---------------------------- MODULE Spec2Model ----------------------------
(***************************************************************************)
(* Adaptive SQL-injection scanning engine: model of the rate limiter, the  *)
(* request engine, the detection probes and the finding consolidator of    *)
(* New_backend/app/services.                                               *)
(*                                                                         *)
(* Numbers are fixed-point integers: times in milliseconds, rates in       *)
(* thousandths of a request per second, tokens in thousandths of a token.  *)
(* Python's float products become integer products followed by an integer  *)
(* division (rounding down).                                               *)
(***************************************************************************)
EXTENDS Integers, Sequences, FiniteSets, TLC

Min(a, b) == IF a < b THEN a ELSE b
Max(a, b) == IF a > b THEN a ELSE b

RECURSIVE SumSeq(_)
SumSeq(s) == IF s = << >> THEN 0 ELSE Head(s) + SumSeq(Tail(s))

(***************************************************************************)
(* RateLimiter (new_sql_scanner.py), as configured by the scanner.         *)
(***************************************************************************)
\* rate_limit=5.0 req/s, in thousandths
rate_limit == 5000
\* burst_limit=10 tokens, in thousandths
burst_limit == 10000
\* self.min_rate_limit = 0.1
min_rate_limit == 100
\* self.max_rate_limit = rate_limit * 5.0
max_rate_limit == rate_limit * 5
\* "keep last 10 responses"
WindowCap == 10

Hosts == {"a.test"}
ErrorKinds == {"transient", "critical"}
\* response times reported with a success: none (0), fast, slow
ResponseTimes == {0, 100, 3000}

\* bounds of the exploration: reports per host, slow entries admitted to a window
MaxReports == 13
MaxSlow == 1
\* bounds of the token-bucket exploration: clock ticks of 50 ms, rate reports
MaxTicks == 12
MaxBucketReports == 2
\* requests made through the request engine
MaxRequests == 2

VARIABLES
  now,                  \* time.time(), ms
  last_request_time, token_bucket, domain_limits,
  domain_failures, domain_successes,
  response_times, domain_error_types,
  consecutive_errors, consecutive_successes,
  performance_data

rlVars == << now, last_request_time, token_bucket, domain_limits,
             domain_failures, domain_successes, response_times,
             domain_error_types, consecutive_errors, consecutive_successes,
             performance_data >>

\* RateLimiter.__init__: the defaultdict defaults of every host
RLInit ==
  /\ last_request_time = [h \in Hosts |-> 0]
  /\ token_bucket = [h \in Hosts |-> burst_limit]
  /\ domain_limits = [h \in Hosts |-> rate_limit]
  /\ domain_failures = [h \in Hosts |-> 0]
  /\ domain_successes = [h \in Hosts |-> 0]
  /\ response_times = [h \in Hosts |-> << >>]
  /\ domain_error_types = [h \in Hosts |-> [k \in ErrorKinds |-> 0]]
  /\ consecutive_errors = [h \in Hosts |-> 0]
  /\ consecutive_successes = [h \in Hosts |-> 0]
  /\ performance_data = [h \in Hosts |-> [avg_response_time |-> 0, error_rate |-> 0]]

\* response_times[domain].append(response_time); pop(0) beyond 10 entries
PushResponseTime(w, rt) ==
  LET a == Append(w, rt) IN IF Len(a) > WindowCap THEN Tail(a) ELSE a

\* report_response_time: the rate it leaves, from the window after the append
RateAfterResponseTime(rate, w, cs) ==
  LET total == SumSeq(w)
      n == Len(w)
  IN IF n = 0 THEN rate
     ELSE IF total * 10 < 5 * 1000 * n /\ cs >= 5
       THEN LET new_rate == Min(max_rate_limit, (rate * 12) \div 10)
            IN IF new_rate > rate THEN new_rate ELSE rate
     ELSE IF total > 2 * 1000 * n
       THEN LET new_rate == Max(min_rate_limit, (rate * 8) \div 10)
            IN IF new_rate < rate THEN new_rate ELSE rate
     ELSE rate

\* report_error, lines 197-203: the rate after an error of kind k, ce already incremented
RateAfterErrorNoFloor(rate, k, ce) ==
  IF k = "critical" \/ ce >= 3
    THEN (rate * (IF k = "critical" THEN 5 ELSE 7)) \div 10
    ELSE rate

RateAfterError(rate, k, ce) ==
  IF k = "critical" \/ ce >= 3
    THEN Max(min_rate_limit, (rate * (IF k = "critical" THEN 5 ELSE 7)) \div 10)
    ELSE rate

\* report_success, lines 235-241: gradual restore towards rate_limit
RateAfterRestore(rate, cs) ==
  IF rate < rate_limit /\ cs >= 5
    THEN LET increase_factor == Min(1200, 1000 + cs * 20)
             new_rate == Min(rate_limit, (rate * increase_factor) \div 1000)
         IN IF new_rate > rate THEN new_rate ELSE rate
    ELSE rate

\* error_rate as stored in performance_data, in thousandths
ErrorRate(f, s, old) == IF f + s > 0 THEN (f * 1000) \div (f + s) ELSE old

CountSlow(w) == Cardinality({i \in 1..Len(w) : w[i] > 2000})

\* RateLimiter.report_error(domain, error_type)
ReportErrorEffect(h, k) ==
  LET ce == consecutive_errors[h] + 1 IN
  /\ consecutive_errors' = [consecutive_errors EXCEPT ![h] = ce]
  /\ consecutive_successes' = [consecutive_successes EXCEPT ![h] = 0]
  /\ domain_error_types' = [domain_error_types EXCEPT ![h][k] = @ + 1]
  /\ performance_data' = [performance_data EXCEPT ![h].error_rate =
        ErrorRate(domain_failures[h], domain_successes[h], @)]
  /\ domain_limits' = [domain_limits EXCEPT ![h] = RateAfterError(@, k, ce)]
  /\ domain_failures' = [domain_failures EXCEPT ![h] = @ + 1]
  /\ UNCHANGED << response_times, domain_successes >>

\* RateLimiter.report_success(domain, response_time), report_response_time included
ReportSuccessEffect(h, rt) ==
  LET cs == consecutive_successes[h] + 1
      w == IF rt > 0 THEN PushResponseTime(response_times[h], rt) ELSE response_times[h]
      r1 == IF rt > 0 THEN RateAfterResponseTime(domain_limits[h], w, cs) ELSE domain_limits[h]
      avg == IF rt > 0 THEN SumSeq(w) \div Len(w) ELSE performance_data[h].avg_response_time
  IN
  /\ consecutive_successes' = [consecutive_successes EXCEPT ![h] = cs]
  /\ consecutive_errors' = [consecutive_errors EXCEPT ![h] = 0]
  /\ domain_successes' = [domain_successes EXCEPT ![h] = @ + 1]
  /\ response_times' = [response_times EXCEPT ![h] = w]
  /\ performance_data' = [performance_data EXCEPT ![h] =
        [avg_response_time |-> avg,
         error_rate |-> ErrorRate(domain_failures[h], domain_successes[h] + 1, @.error_rate)]]
  /\ domain_limits' = [domain_limits EXCEPT ![h] = RateAfterRestore(r1, cs)]
  /\ UNCHANGED << domain_failures, domain_error_types >>

report_error ==
  \E h \in Hosts, k \in ErrorKinds :
    /\ domain_failures[h] + domain_successes[h] < MaxReports
    /\ ReportErrorEffect(h, k)
    /\ UNCHANGED << now, last_request_time, token_bucket >>

report_success ==
  \E h \in Hosts, rt \in ResponseTimes :
    /\ domain_failures[h] + domain_successes[h] < MaxReports
    /\ rt > 2000 => CountSlow(response_times[h]) < MaxSlow
    /\ ReportSuccessEffect(h, rt)
    /\ UNCHANGED << now, last_request_time, token_bucket >>


(***************************************************************************)
(* Token bucket: RateLimiter.acquire.  The wall clock only moves forward.  *)
(***************************************************************************)
\* a wall-clock reading far from the epoch, ms
StartTime == 100 * 1000
Delays == {50, 200}

\* acquire, lines 89-93: the bucket after the refill
\* time_since_last * self.domain_limits[domain], in thousandths of a token
NewTokens(elapsed, rate) ==
  (elapsed \div 1000) * rate + ((elapsed % 1000) * rate) \div 1000

RefillNoCap(tokens, elapsed, rate) == tokens + NewTokens(elapsed, rate)

Refill(tokens, elapsed, rate) == Min(tokens + NewTokens(elapsed, rate), burst_limit)

Refilled(h) == Refill(token_bucket[h], now - last_request_time[h], domain_limits[h])

\* acquire returns True
Admitted(h) == Refilled(h) >= 1000

\* RateLimiter.acquire(domain): refill, then consume one token if there is one
AcquireEffect(h) ==
  IF Admitted(h)
    THEN /\ token_bucket' = [token_bucket EXCEPT ![h] = Refilled(h) - 1000]
         /\ last_request_time' = [last_request_time EXCEPT ![h] = now]
    ELSE /\ token_bucket' = [token_bucket EXCEPT ![h] = Refilled(h)]
         /\ UNCHANGED last_request_time

rateVars == << domain_limits, domain_failures, domain_successes, response_times,
               domain_error_types, consecutive_errors, consecutive_successes,
               performance_data >>

acquire ==
  \E h \in Hosts :
    /\ AcquireEffect(h)
    /\ UNCHANGED << now, rateVars >>

Tick ==
  \E d \in Delays :
    /\ now + d <= StartTime + MaxTicks * 50
    /\ now' = now + d
    /\ UNCHANGED << last_request_time, token_bucket, rateVars >>

bucket_report_error ==
  \E h \in Hosts, k \in ErrorKinds :
    /\ domain_failures[h] + domain_successes[h] < MaxBucketReports
    /\ ReportErrorEffect(h, k)
    /\ UNCHANGED << now, last_request_time, token_bucket >>

bucket_report_success ==
  \E h \in Hosts, rt \in ResponseTimes :
    /\ domain_failures[h] + domain_successes[h] < MaxBucketReports
    /\ ReportSuccessEffect(h, rt)
    /\ UNCHANGED << now, last_request_time, token_bucket >>

(***************************************************************************)
(* RequestEngine: EnhancedSQLScanner._make_rate_limited_request, with      *)
(* _apply_rate_limiting / RateLimiter.wait_for_token, _perform_request and *)
(* _classify_error.  One worker; a request is made for host RequestHost.   *)
(***************************************************************************)
\* retries=3
retries == 3
\* aiohttp.ClientTimeout(total=15), ms
RequestTimeout == 15000

RequestHost == CHOOSE h \in Hosts : TRUE

\* random.uniform(0.75, 1.25) and random.uniform(1.0, 1.2): the two ends, in thousandths
BackoffJitter == {750, 1250}
PollJitter == {1000, 1200}

\* what _perform_request can do: return a response after some time, or raise
NoStatus == 0
Exceptions ==
  { [cls |-> "ClientConnectorError", msg |-> "other", status |-> NoStatus],
    [cls |-> "TimeoutError", msg |-> "other", status |-> NoStatus],
    [cls |-> "Exception", msg |-> "connection reset", status |-> NoStatus],
    [cls |-> "Exception", msg |-> "timed out", status |-> NoStatus],
    [cls |-> "ClientResponseError", msg |-> "other", status |-> 429],
    [cls |-> "ClientResponseError", msg |-> "other", status |-> 500],
    [cls |-> "ClientResponseError", msg |-> "other", status |-> 404],
    [cls |-> "Exception", msg |-> "other", status |-> NoStatus] }

\* response.status of the responses session.request gives back
ResponseStatuses == {200, 429, 500}

\* _classify_error(error, status_code)
_classify_error(e) ==
  IF e.cls \in {"ClientConnectorError", "ServerTimeoutError", "ClientOSError", "TimeoutError"}
    THEN "transient"
  ELSE IF e.msg \in {"connection reset", "broken pipe", "connection refused"}
    THEN "transient"
  ELSE IF e.msg \in {"timeout", "timed out"}
    THEN "transient"
  ELSE IF e.status \in {429, 503, 502, 504}
    THEN "transient"
  ELSE IF e.status \in {500, 501, 403, 401}
    THEN "critical"
  ELSE "critical"

VARIABLES
  req_pc,            \* where the call is: idle, backoff, acquire, perform, done
  retry_count,
  req_result,        \* what the call returned: pending, response, none
  req_status,        \* "status" of the response returned, NoStatus without one
  outcomes,          \* history: the outcome of each _perform_request of this call
  requests_made,     \* history: calls started
  domain_throttling

reqVars ==
  << req_pc, retry_count, req_result, req_status, outcomes, requests_made, domain_throttling >>

ReqInit ==
  /\ req_pc = "idle"
  /\ retry_count = 0
  /\ req_result = "pending"
  /\ req_status = NoStatus
  /\ outcomes = << >>
  /\ requests_made = 0
  /\ domain_throttling = [h \in Hosts |-> 0]

RECURSIVE Pow2(_)
Pow2(n) == IF n <= 0 THEN 1 ELSE 2 * Pow2(n - 1)

\* wait_for_token, lines 114-125: the backoff sleep, ms, for jitter j
BackoffTime(h, j) ==
  LET backoff_factor == Min(30, Pow2(consecutive_errors[h] - 1))
      backoff_time == backoff_factor * j
      critical_errors == domain_error_types[h]["critical"]
  IN IF critical_errors > 0
       THEN (backoff_time * (2 + Min(5, critical_errors))) \div 2
       ELSE backoff_time

\* wait_for_token, lines 130-137: the sleep between two polls, ms, for jitter j
PollWaitNone(h, j) == 0
PollWait(h, j) ==
  LET wait_time == (((1000 * 1000) \div domain_limits[h]) * j) \div 1000
      avg_response_time == performance_data[h].avg_response_time
  IN IF avg_response_time > 2000
       THEN (wait_time * Min(3000, avg_response_time \div 2)) \div 1000
       ELSE wait_time

\* _make_rate_limited_request, line 2960: the sleep before a retry, ms
RetryBackoff(rc, j) == Min(60, Pow2(rc)) * j

\* line 2958: whether another attempt follows a failure
ShouldRetryAny(rc, error_type) == rc <= retries

ShouldRetry(rc, error_type) == rc <= retries /\ error_type = "transient"

\* the call starts: retry_count = 0, then the loop is entered
StartRequest ==
  /\ req_pc = "idle"
  /\ requests_made < MaxRequests
  /\ requests_made' = requests_made + 1
  /\ retry_count' = 0
  /\ outcomes' = << >>
  /\ req_result' = "pending"
  /\ req_status' = NoStatus
  /\ req_pc' = "backoff"
  /\ UNCHANGED << rlVars, domain_throttling >>

\* wait_for_token: the adaptive delay after consecutive errors
WaitBackoff ==
  /\ req_pc = "backoff"
  /\ IF consecutive_errors[RequestHost] > 0
       THEN \E j \in BackoffJitter : now' = now + BackoffTime(RequestHost, j)
       ELSE UNCHANGED now
  /\ req_pc' = "acquire"
  /\ UNCHANGED << last_request_time, token_bucket, rateVars,
                  retry_count, req_result, req_status, outcomes, requests_made,
                  domain_throttling >>

\* wait_for_token: one poll of acquire; a rejected poll sleeps and polls again
WaitPoll ==
  /\ req_pc = "acquire"
  /\ AcquireEffect(RequestHost)
  /\ IF Admitted(RequestHost)
       THEN /\ req_pc' = "perform"
            /\ domain_throttling' = [domain_throttling EXCEPT ![RequestHost] = @ + 1]
            /\ UNCHANGED now
       ELSE /\ \E j \in PollJitter : now' = now + PollWait(RequestHost, j)
            /\ UNCHANGED << req_pc, domain_throttling >>
  /\ UNCHANGED << rateVars, retry_count, req_result, req_status, outcomes, requests_made >>

\* _perform_request returns a response after rt, whatever its status:
\* report_success, return the response
PerformSuccessAfter(rt) ==
  /\ req_pc = "perform"
  /\ now' = now + rt
  /\ ReportSuccessEffect(RequestHost, rt)
  /\ \E status \in ResponseStatuses : req_status' = status
  /\ outcomes' = Append(outcomes, "success")
  /\ req_result' = "response"
  /\ req_pc' = "done"
  /\ UNCHANGED << last_request_time, token_bucket, retry_count, requests_made, domain_throttling >>

\* the response comes after one of the engine's response times
PerformSuccess == \E rt \in ResponseTimes \ {0} : PerformSuccessAfter(rt)

\* _perform_request raises: classify, report_error, retry or give up
PerformFailure ==
  /\ req_pc = "perform"
  /\ \E e \in Exceptions :
       LET error_type == _classify_error(e)
           rc == retry_count + 1
           elapsed == IF e.cls = "TimeoutError" THEN RequestTimeout ELSE 100
       IN /\ ReportErrorEffect(RequestHost, error_type)
          /\ outcomes' = Append(outcomes, error_type)
          /\ retry_count' = rc
          /\ IF ShouldRetry(rc, error_type)
               THEN /\ \E j \in BackoffJitter : now' = now + elapsed + RetryBackoff(rc, j)
                    /\ req_pc' = "backoff"
                    /\ UNCHANGED req_result
               ELSE /\ now' = now + elapsed
                    /\ req_pc' = "done"
                    /\ req_result' = "none"
  /\ UNCHANGED << last_request_time, token_bucket, req_status, requests_made,
                  domain_throttling >>

\* the caller takes the result; the engine is ready for the next call
ReturnToCaller ==
  /\ req_pc = "done"
  /\ req_pc' = "idle"
  /\ UNCHANGED << rlVars, retry_count, req_result, req_status, outcomes, requests_made,
                  domain_throttling >>

(***************************************************************************)
(* Old scanner (enhanced_sql_scanner.py): what _make_request gives back.   *)
(* "none" stands for None and for an empty body (both are falsy to the     *)
(* probes); "timeout" for the asyncio.TimeoutError it re-raises.           *)
(***************************************************************************)
VARIABLES uuid_next    \* uuid.uuid4(): the next fresh identity

\* identities drawn before the probes stop being called again
MaxIds == 1

\* a fresh identity was drawn
FreshId == uuid_next' = uuid_next + 1

(***************************************************************************)
(* UNION probe: EnhancedSQLScanner._test_union_sqli.  A body is the set of *)
(* markers SQLi1337M1..M7 it contains; the body of a verification response *)
(* also says whether it contains that request's SQLiVerify marker.         *)
(***************************************************************************)
\* markers = ["SQLi1337M1", ..., "SQLi1337M7"]; range(1, 8)
NumMarkers == 7
\* the markers a page may show, SQLi1337M1 .. SQLi1337M<MaxMarkerShown>
MaxMarkerShown == 2

UnionBodies == SUBSET (1..MaxMarkerShown)
\* kind "none" is None or an empty body, "timeout" the asyncio.TimeoutError
\* that _make_request re-raises, "body" a non-empty body
UnionResponses ==
  [kind : {"none", "timeout"}, markers : {{}}, verify : {FALSE}]
    \cup [kind : {"body"}, markers : UnionBodies, verify : {FALSE}]
\* verify: the body contains the SQLiVerify marker of the request
VerifyResponses ==
  [kind : {"none", "timeout"}, markers : {{}}, verify : {FALSE}]
    \cup [kind : {"body"}, markers : UnionBodies, verify : BOOLEAN]

\* priority as passed by the callers (1.0, 1.5, 2.0), doubled
PrioritiesX2 == {2, 3, 4}

\* union_payloads: for every column count the marker payload and its NULL variant
UnionPayloads == [cols : 1..NumMarkers, nulls : BOOLEAN]

\* num_payloads = min(int(5 * priority), len(union_payloads))
NumUnionPayloads(px2) == Min((5 * px2) \div 2, Cardinality(UnionPayloads))

VARIABLES
  u_pc,          \* idle, baseline, send, check, done
  u_left,        \* payloads of the sample still to send
  u_payload,     \* the payload of the current iteration
  u_sibling,     \* whether the other payload of the same column count was sent
  u_baseline, u_response,
  u_i,           \* index of the marker loop, from 0
  u_result,      \* UnionNone or the Finding returned
  u_verify       \* the last verification request sent and what came back

unionVars == << u_pc, u_left, u_payload, u_sibling, u_baseline, u_response,
                u_i, u_result, u_verify >>

NoPayload == [cols |-> 0, nulls |-> FALSE]
\* no verification request sent yet
NoVerify == [cols |-> 0, pos |-> 0, marked |-> FALSE]
\* the probe's return value None
UnionNone ==
  [id |-> 0, name |-> "None", severity |-> "None", payload |-> NoPayload,
   marker |-> 0, cols |-> 0]

UnionInit ==
  /\ u_pc = "idle"
  /\ u_left = 0
  /\ u_payload = NoPayload
  /\ u_sibling = FALSE
  /\ u_baseline = {}
  /\ u_response = {}
  /\ u_i = 0
  /\ u_result = UnionNone
  /\ u_verify = NoVerify

\* payloads of the sample not sent yet that the sort puts at or after payload p
UnionAvailable(p, sibling) ==
  IF p = NoPayload THEN Cardinality(UnionPayloads)
  ELSE (IF sibling THEN 0 ELSE 1) + 2 * (NumMarkers - p.cols)

\* the payloads that can come next in a sample sorted by column count
UnionNextPayloads(p, sibling, left) ==
  { q \in UnionPayloads :
      /\ q.cols >= p.cols
      /\ q # p
      /\ (q.cols = p.cols => ~sibling)
      /\ UnionAvailable(q, q.cols = p.cols) >= left - 1 }

\* line 1404: marker i (from 0) is in the response and not in the baseline
MarkerReflected(i, response, baseline) ==
  (i + 1) \in response /\ (i + 1) \notin baseline

\* line 1415: the verification response confirms
VerifyAcceptsAny(vr) == vr.kind = "body"

VerifyAccepts(vr) == vr.kind = "body" /\ vr.verify

UnionFinding(p, i) ==
  [id |-> uuid_next, name |-> "UNION-based SQL Injection", severity |-> "high",
   payload |-> p, marker |-> i, cols |-> p.cols]

\* the probe is called with a priority
UnionStart ==
  /\ u_pc = "idle"
  /\ uuid_next <= MaxIds
  /\ \E px2 \in PrioritiesX2 : u_left' = NumUnionPayloads(px2)
  /\ u_pc' = "baseline"
  /\ u_payload' = NoPayload
  /\ u_sibling' = FALSE
  /\ u_baseline' = {}
  /\ u_response' = {}
  /\ u_i' = 0
  /\ u_result' = UnionNone
  /\ u_verify' = NoVerify
  /\ UNCHANGED uuid_next

\* lines 1367-1369: the baseline request
UnionBaseline ==
  /\ u_pc = "baseline"
  /\ \E r \in UnionResponses :
       IF r.kind # "body"
         THEN u_pc' = "done" /\ UNCHANGED u_baseline
         ELSE u_pc' = "send" /\ u_baseline' = r.markers
  /\ UNCHANGED << u_left, u_payload, u_sibling, u_response, u_i, u_result,
                  u_verify, uuid_next >>

\* lines 1395-1399: the next payload of the sorted sample is sent
UnionSend ==
  /\ u_pc = "send"
  /\ u_left > 0
  /\ \E q \in UnionNextPayloads(u_payload, u_sibling, u_left), r \in UnionResponses :
       /\ u_payload' = q
       /\ u_sibling' = (q.cols = u_payload.cols)
       /\ u_left' = u_left - 1
       /\ u_response' = r.markers
       /\ u_i' = 0
       /\ u_pc' = IF r.kind = "timeout" THEN "done"
                  ELSE IF r.kind = "none" THEN "send" ELSE "check"
  /\ UNCHANGED << u_baseline, u_result, u_verify, uuid_next >>

\* line 1426: the sample is used up
UnionExhausted ==
  /\ u_pc = "send"
  /\ u_left = 0
  /\ u_pc' = "done"
  /\ UNCHANGED << u_left, u_payload, u_sibling, u_baseline, u_response, u_i,
                  u_result, u_verify, uuid_next >>

\* lines 1402-1424: one iteration of the marker loop
UnionCheckMarker ==
  /\ u_pc = "check"
  /\ IF u_i >= Min(u_payload.cols, NumMarkers)
       THEN /\ u_pc' = "send"
            /\ UNCHANGED << u_i, u_result, u_verify, uuid_next >>
     ELSE IF ~MarkerReflected(u_i, u_response, u_baseline)
       THEN /\ u_i' = u_i + 1
            /\ UNCHANGED << u_pc, u_result, u_verify, uuid_next >>
     ELSE \E vr \in VerifyResponses :
            /\ u_verify' = [cols |-> u_payload.cols, pos |-> u_i,
                             marked |-> (vr.kind = "body" /\ vr.verify)]
            /\ IF vr.kind = "timeout"
                 THEN u_pc' = "done" /\ UNCHANGED << u_i, u_result, uuid_next >>
               ELSE IF VerifyAccepts(vr)
                 THEN /\ u_result' = UnionFinding(u_payload, u_i)
                      /\ FreshId
                      /\ u_pc' = "done"
                      /\ UNCHANGED u_i
               ELSE /\ u_i' = u_i + 1
                    /\ UNCHANGED << u_pc, u_result, uuid_next >>
  /\ UNCHANGED << u_left, u_payload, u_sibling, u_baseline, u_response >>

\* the caller takes the result
UnionReturn ==
  /\ u_pc = "done"
  /\ u_pc' = "idle"
  /\ UNCHANGED << u_left, u_payload, u_sibling, u_baseline, u_response, u_i,
                  u_result, u_verify, uuid_next >>

(***************************************************************************)
(* Boolean-blind probe: EnhancedSQLScanner._test_boolean_based_sqli and    *)
(* _calc_response_similarity.  A body is a run-length encoded string: a    *)
(* sequence of runs [c, n] of n copies of the character c.  A similarity   *)
(* is the exact fraction [num, den] that the code rounds to a float.       *)
(***************************************************************************)
Run(c, n) == [c |-> c, n |-> n]

\* the bodies a page may answer with, by name
Body(id) ==
  CASE id = "welcome" ->
         << Run("W", 1), Run("e", 1), Run("l", 1), Run("c", 1), Run("o", 1),
            Run("m", 1), Run("e", 1) >>
    [] id = "denied" ->
         << Run("E", 1), Run("r", 2), Run("o", 1), Run("r", 1), Run(":", 1),
            Run(" ", 1), Run("a", 1), Run("c", 2), Run("e", 1), Run("s", 2),
            Run(" ", 1), Run("d", 1), Run("e", 1), Run("n", 1), Run("i", 1),
            Run("e", 1), Run("d", 1) >>
    [] id = "a120" -> << Run("a", 120) >>
    [] id = "a108" -> << Run("a", 108) >>
    [] id = "big" -> << Run("a", 10001) >>
    [] id = "bigger" -> << Run("a", 10013) >>
    [] OTHER -> << >>

BodyIds == {"welcome", "denied", "a120", "a108", "big", "bigger"}

RECURSIVE BodyLen(_)
\* len(response)
BodyLen(b) == IF b = << >> THEN 0 ELSE Head(b).n + BodyLen(Tail(b))

RECURSIVE CharAt(_, _)
\* response[i], i from 0
CharAt(b, i) == IF i < Head(b).n THEN Head(b).c ELSE CharAt(Tail(b), i - Head(b).n)

\* a slice bound of Python: negative counts from the end, then clamped to 0..len
SliceBound(idx, len) == IF idx < 0 THEN Max(idx + len, 0) ELSE Min(idx, len)

\* response[start:stop] as the half-open index range [lo, hi) it covers
PySlice(start, stop, len) ==
  LET lo == SliceBound(start, len)
      hi == SliceBound(stop, len)
  IN [lo |-> lo, hi |-> Max(lo, hi)]

\* response[start:]
PySliceFrom(start, len) == [lo |-> SliceBound(start, len), hi |-> len]

\* Python's floor division by a positive number
FloorDiv(a, b) == IF a >= 0 THEN a \div b ELSE -((-a + b - 1) \div b)

\* sum(c1 == c2 for c1, c2 in zip(r1, r2)) on the slices s1 of b1 and s2 of b2
Matches(b1, s1, b2, s2) ==
  LET n == Min(s1.hi - s1.lo, s2.hi - s2.lo)
  IN Cardinality({ j \in 0..(n - 1) : CharAt(b1, s1.lo + j) = CharAt(b2, s2.lo + j) })

\* lines 1593-1597: the beginning, middle and end samples of a response
ResponseParts(len, sample_size) ==
  << PySlice(0, sample_size \div 3, len),
     PySlice(len \div 2 - sample_size \div 6, len \div 2 + sample_size \div 6, len),
     PySliceFrom(FloorDiv(-sample_size, 3), len) >>

RECURSIVE SumFractions(_)
\* the sum of a sequence of fractions [num, den]
SumFractions(fs) ==
  IF fs = << >> THEN [num |-> 0, den |-> 1]
  ELSE LET f == Head(fs)
           r == SumFractions(Tail(fs))
       IN [num |-> f.num * r.den + r.num * f.den, den |-> f.den * r.den]

_calc_response_similarity(b1, b2) ==
  LET l1 == BodyLen(b1)
      l2 == BodyLen(b2)
  IN IF l1 = 0 \/ l2 = 0 THEN [num |-> 0, den |-> 1]
     ELSE IF l1 > 10000 \/ l2 > 10000
       THEN LET sample_size == Max(1000, Min(l1, l2) \div 10)
                p1 == ResponseParts(l1, sample_size)
                p2 == ResponseParts(l2, sample_size)
                used == { k \in 1..3 : p1[k].hi > p1[k].lo /\ p2[k].hi > p2[k].lo }
                sim(k) == [num |-> Matches(b1, p1[k], b2, p2[k]),
                           den |-> Max(p1[k].hi - p1[k].lo, p2[k].hi - p2[k].lo)]
                similarities ==
                  (IF 1 \in used THEN << sim(1) >> ELSE << >>)
                    \o (IF 2 \in used THEN << sim(2) >> ELSE << >>)
                    \o (IF 3 \in used THEN << sim(3) >> ELSE << >>)
                total == SumFractions(similarities)
            IN [num |-> total.num, den |-> total.den * Len(similarities)]
     ELSE [num |-> Matches(b1, [lo |-> 0, hi |-> l1], b2, [lo |-> 0, hi |-> l2]),
           den |-> Max(l1, l2)]

RECURSIVE SimilarityOn(_)
\* the similarities of the pairs of bodies in ps, as a table
SimilarityOn(ps) ==
  IF ps = {} THEN << >>
  ELSE LET p == CHOOSE q \in ps : TRUE
       IN (p :> _calc_response_similarity(Body(p[1]), Body(p[2])))
            @@ SimilarityOn(ps \ {p})

\* the similarity of every two bodies, computed once
Similarity == SimilarityOn(BodyIds \X BodyIds)

\* len(response) of every body, computed once
Length == [id \in BodyIds |-> BodyLen(Body(id))]

RECURSIVE FractionLess(_, _, _, _)
\* a/b < c/d for a, c >= 0 and b, d > 0, without forming the products
FractionLess(a, b, c, d) ==
  LET qa == a \div b
      qc == c \div d
      ra == a % b
      rc == c % d
  IN IF qa # qc THEN qa < qc
     ELSE IF rc = 0 THEN FALSE
     ELSE IF ra = 0 THEN TRUE
     ELSE FractionLess(d, rc, b, ra)

\* test_pairs, lines 1494-1500: (TRUE payload, FALSE payload)
test_pairs ==
  << << "' AND 1=1 --", "' AND 1=2 --" >>,
     << "' AND '1'='1' --", "' AND '1'='2' --" >>,
     << "' AND 3>2 --", "' AND 3<2 --" >>,
     << "' OR 1=1 --", "' OR 1=2 --" >>,
     << "' AND (SELECT 1) --", "' AND (SELECT 0) --" >> >>

\* num_pairs = min(int(2 * priority), len(test_pairs))
NumPairs(px2) == Min(px2, Len(test_pairs))

\* what _make_request gives back: None or an empty body, a timeout, a body
BoolResponses ==
  [kind : {"none", "timeout"}, body : {""}] \cup [kind : {"body"}, body : BodyIds]

NoResponse == [kind |-> "none", body |-> ""]

\* the bodies the unmodified request is answered with
OriginalBodies == {"welcome", "big"}

VARIABLES
  b_pc,          \* idle, original, true, false, confirm_true, confirm_false, done
  b_tested,      \* the pairs of the sample already taken, as indices of test_pairs
  b_left,        \* pairs of the sample still to test
  b_pair,        \* index of the pair under test
  b_original,    \* the body of the original response
  b_true, b_false,   \* the bodies of the pair under test, "" while not received
  b_confirm,     \* index of the confirmation pair, 0 while none is chosen
  b_confirm_true, b_confirm_false,  \* what the confirmation requests returned
  b_result       \* BoolNone or the Finding returned

boolVars == << b_pc, b_tested, b_left, b_pair, b_original, b_true, b_false,
               b_confirm, b_confirm_true, b_confirm_false, b_result >>

\* the probe's return value None
BoolNone ==
  [id |-> 0, name |-> "None", severity |-> "None", true_payload |-> "",
   false_payload |-> "", difference |-> 0, condition_description |-> ""]

BoolInit ==
  /\ b_pc = "idle"
  /\ b_tested = {}
  /\ b_left = 0
  /\ b_pair = 0
  /\ b_original = ""
  /\ b_true = ""
  /\ b_false = ""
  /\ b_confirm = 0
  /\ b_confirm_true = NoResponse
  /\ b_confirm_false = NoResponse
  /\ b_result = BoolNone

\* return None: the locals of the call are gone
BoolReturnsNone ==
  /\ b_pc' = "done"
  /\ b_tested' = {}
  /\ b_left' = 0
  /\ b_pair' = 0
  /\ b_original' = ""
  /\ b_true' = ""
  /\ b_false' = ""
  /\ b_confirm' = 0
  /\ b_confirm_true' = NoResponse
  /\ b_confirm_false' = NoResponse
  /\ b_result' = BoolNone
  /\ UNCHANGED uuid_next

Abs(x) == IF x < 0 THEN -x ELSE x

\* abs(len(r1) - len(r2))
LenDiff(id1, id2) == Abs(Length[id1] - Length[id2])

\* lines 1534-1537: the TRUE and FALSE responses differ significantly
IsCandidate(t, f) ==
  /\ LenDiff(t, f) > 10
  /\ LET content_difference == Similarity[<< t, f >>]
     IN FractionLess(content_difference.num, content_difference.den, 9, 10)

\* lines 1545-1550, with the check of the confirmation pair left out
ConfirmedAlways(ct, cf) == TRUE

\* lines 1545-1550: the confirmation pair shows a significant difference too
Confirmed(ct, cf) ==
  /\ ct.kind = "body"
  /\ cf.kind = "body"
  /\ LenDiff(ct.body, cf.body) > 10

\* lines 1552-1555
ConditionDescription(o, t, f) ==
  LET st == Similarity[<< o, t >>]
      sf == Similarity[<< o, f >>]
  IN IF FractionLess(sf.num, sf.den, st.num, st.den)
       THEN "TRUE condition response is similar to original"
       ELSE "FALSE condition response is similar to original"

BoolFinding(pair, o, t, f) ==
  [id |-> uuid_next, name |-> "Boolean-based Blind SQL Injection",
   severity |-> "high", true_payload |-> test_pairs[pair][1],
   false_payload |-> test_pairs[pair][2], difference |-> LenDiff(t, f),
   condition_description |-> ConditionDescription(o, t, f)]

\* the probe is called with a priority
BoolStart ==
  /\ b_pc = "idle"
  /\ uuid_next <= MaxIds
  /\ \E px2 \in PrioritiesX2 : b_left' = NumPairs(px2)
  /\ b_pc' = "original"
  /\ b_tested' = {}
  /\ b_pair' = 0
  /\ b_original' = ""
  /\ b_true' = ""
  /\ b_false' = ""
  /\ b_confirm' = 0
  /\ b_confirm_true' = NoResponse
  /\ b_confirm_false' = NoResponse
  /\ b_result' = BoolNone
  /\ UNCHANGED uuid_next

\* lines 1507-1510: the original request
BoolOriginal ==
  /\ b_pc = "original"
  /\ \E r \in { x \in BoolResponses : x.kind = "body" => x.body \in OriginalBodies } :
       IF r.kind = "body"
         THEN /\ b_pc' = "true"
              /\ b_original' = r.body
              /\ UNCHANGED << b_tested, b_left, b_pair, b_true, b_false, b_confirm,
                              b_confirm_true, b_confirm_false, b_result, uuid_next >>
         ELSE BoolReturnsNone

\* lines 1515-1519: the next pair of the sample, and its TRUE request
BoolTrue ==
  /\ b_pc = "true"
  /\ b_left > 0
  /\ \E pair \in (1..Len(test_pairs)) \ b_tested, r \in BoolResponses :
       IF r.kind = "timeout" THEN BoolReturnsNone
       ELSE /\ b_pair' = pair
            /\ b_tested' = b_tested \cup {pair}
            /\ b_left' = b_left - 1
            /\ b_true' = r.body
            /\ b_pc' = IF r.kind = "none" THEN "true" ELSE "false"
            /\ UNCHANGED << b_original, b_false, b_confirm, b_confirm_true,
                            b_confirm_false, b_result, uuid_next >>

\* line 1567: the sample is used up
BoolExhausted ==
  /\ b_pc = "true"
  /\ b_left = 0
  /\ BoolReturnsNone

\* lines 1522-1539: the FALSE request, the comparison, the choice of the
\* confirmation pair
BoolFalse ==
  /\ b_pc = "false"
  /\ \E r \in BoolResponses :
       IF r.kind = "timeout" THEN BoolReturnsNone
       ELSE IF r.kind = "none" \/ ~IsCandidate(b_true, r.body)
         THEN /\ b_pc' = "true"
              /\ b_true' = ""
              /\ UNCHANGED << b_tested, b_left, b_pair, b_original, b_false,
                              b_confirm, b_confirm_true, b_confirm_false,
                              b_result, uuid_next >>
       ELSE /\ b_pc' = "confirm_true"
            /\ b_false' = r.body
            /\ \E c \in (1..Len(test_pairs)) :
                 /\ test_pairs[c] # test_pairs[b_pair]
                 /\ b_confirm' = c
            /\ UNCHANGED << b_tested, b_left, b_pair, b_original, b_true,
                            b_confirm_true, b_confirm_false, b_result, uuid_next >>

\* line 1542: the TRUE request of the confirmation pair
BoolConfirmTrue ==
  /\ b_pc = "confirm_true"
  /\ \E r \in BoolResponses :
       IF r.kind = "timeout" THEN BoolReturnsNone
       ELSE /\ b_confirm_true' = r
            /\ b_pc' = "confirm_false"
            /\ UNCHANGED << b_tested, b_left, b_pair, b_original, b_true, b_false,
                            b_confirm, b_confirm_false, b_result, uuid_next >>

\* lines 1543-1565: the FALSE request of the confirmation pair and the verdict
BoolConfirmFalse ==
  /\ b_pc = "confirm_false"
  /\ \E r \in BoolResponses :
       IF r.kind = "timeout" THEN BoolReturnsNone
       ELSE IF Confirmed(b_confirm_true, r)
         THEN /\ b_result' = BoolFinding(b_pair, b_original, b_true, b_false)
              /\ b_confirm_false' = r
              /\ FreshId
              /\ b_pc' = "done"
              /\ b_tested' = {}
              /\ b_left' = 0
              /\ b_original' = ""
              /\ UNCHANGED << b_pair, b_true, b_false, b_confirm, b_confirm_true >>
       ELSE /\ b_pc' = "true"
            /\ b_true' = ""
            /\ b_false' = ""
            /\ b_confirm' = 0
            /\ b_confirm_true' = NoResponse
            /\ UNCHANGED << b_tested, b_left, b_pair, b_original,
                            b_confirm_false, b_result, uuid_next >>

\* the caller takes the result
BoolReturn ==
  /\ b_pc = "done"
  /\ b_pc' = "idle"
  /\ UNCHANGED << b_tested, b_left, b_pair, b_original, b_true, b_false,
                  b_confirm, b_confirm_true, b_confirm_false, b_result, uuid_next >>

(***************************************************************************)
(* Time-blind probe: EnhancedSQLScanner._test_time_based_sqli.  Times are  *)
(* in milliseconds.  The cache keeps the sum of the three baseline samples *)
(* in place of their average, and every comparison is made on the tripled  *)
(* values, so that no division is rounded.                                 *)
(***************************************************************************)
\* threshold = max(2.5, baseline_avg * 2)
MinThreshold == 2500
\* payload_response_time = 10.0 on asyncio.TimeoutError
TimeoutValue == 10000
\* for _ in range(3)
BaselineSamples == 3

\* url_key = f"{url}:{method}"
UrlKeys == {"http://a.test/item?id=1:get"}

\* the durations a baseline request may take
BaselineTimes == {200, 1500}
\* the durations a payload request may take when it does not time out
PayloadTimes == {200, 2600, 4000}

\* self.blind_payloads, one payload of each kind
blind_payloads == {"' AND SLEEP(3) --", "' AND pg_sleep(3) --"}

\* "SLEEP" in p, "pg_sleep" in p
PayloadHas(p, word) ==
  \/ word = "SLEEP" /\ p = "' AND SLEEP(3) --"
  \/ word = "pg_sleep" /\ p = "' AND pg_sleep(3) --"

\* the attribute db_type: unset, or what the fingerprinting stored
DbTypes == {"unset", "mysql", "postgres", "sqlite"}

\* lines 1660-1680: the payloads random.choice draws from
PayloadChoices(db) ==
  LET payloads ==
        CASE db = "mysql" -> { p \in blind_payloads : PayloadHas(p, "SLEEP") }
          [] db = "postgres" -> { p \in blind_payloads : PayloadHas(p, "pg_sleep") }
          [] OTHER -> blind_payloads
  IN IF db # "unset" /\ payloads # {} THEN payloads ELSE blind_payloads

VARIABLES
  baseline_cache,  \* url_key -> << >> when absent, << sum of the samples >>
  t_pc,            \* idle, baseline, first, second, done
  t_key,           \* url_key of the call
  t_db,            \* db_type at the call
  t_samples,       \* baseline_times
  t_baseline,      \* BaselineSamples * baseline_avg
  t_payload,       \* the payload chosen
  t_tests,         \* the timed payload requests of the call: [payload, time, timed_out]
  t_result         \* TimeNone or the Finding returned

timeVars == << baseline_cache, t_pc, t_key, t_db, t_samples, t_baseline,
               t_payload, t_tests, t_result >>

\* the probe's return value None
TimeNone ==
  [id |-> 0, name |-> "None", severity |-> "None", payload |-> "",
   time_diff |-> 0, baseline |-> 0]

TimeInit ==
  /\ baseline_cache = [k \in UrlKeys |-> << >>]
  /\ t_pc = "idle"
  /\ t_key = CHOOSE k \in UrlKeys : TRUE
  /\ t_db = "unset"
  /\ t_samples = << >>
  /\ t_baseline = 0
  /\ t_payload = ""
  /\ t_tests = << >>
  /\ t_result = TimeNone

\* time - baseline_avg >= max(2.5, baseline_avg * 2), both sides tripled
DelayTest(time, baseline) ==
  BaselineSamples * time - baseline >= Max(BaselineSamples * MinThreshold, 2 * baseline)

\* line 1706, with the check of the second test left out
SecondDelayTestAlways(time, baseline) == TRUE

\* line 1706: the second test is slow too
SecondDelayTest(time, baseline) == DelayTest(time, baseline)

\* time_diff and baseline are kept tripled
TimeFinding(payload, time, baseline) ==
  [id |-> uuid_next, name |-> "Time-based Blind SQL Injection",
   severity |-> "high", payload |-> payload,
   time_diff |-> BaselineSamples * time - baseline, baseline |-> baseline]

\* lines 1639-1680 on a cache hit, 1639-1643 on a miss
TimeStart ==
  /\ t_pc = "idle"
  /\ uuid_next <= MaxIds
  /\ \E k \in UrlKeys, db \in DbTypes :
       /\ t_key' = k
       /\ t_db' = db
       /\ IF baseline_cache[k] = << >>
            THEN /\ t_pc' = "baseline"
                 /\ t_baseline' = 0
                 /\ t_payload' = ""
            ELSE /\ t_pc' = "first"
                 /\ t_baseline' = baseline_cache[k][1]
                 /\ \E p \in PayloadChoices(db) : t_payload' = p
  /\ t_samples' = << >>
  /\ t_tests' = << >>
  /\ t_result' = TimeNone
  /\ UNCHANGED << baseline_cache, uuid_next >>

\* lines 1645-1651 and 1657-1680: one baseline sample; after the last one the
\* average is cached and the payload chosen
TimeBaselineSample ==
  /\ t_pc = "baseline"
  /\ \E d \in BaselineTimes :
       LET samples == Append(t_samples, d)
       IN /\ t_samples' = samples
          /\ IF Len(samples) < BaselineSamples
               THEN UNCHANGED << t_pc, t_baseline, t_payload, baseline_cache >>
               ELSE /\ t_baseline' = SumSeq(samples)
                    /\ baseline_cache' =
                         [baseline_cache EXCEPT ![t_key] = << SumSeq(samples) >>]
                    /\ \E p \in PayloadChoices(t_db) : t_payload' = p
                    /\ t_pc' = "first"
  /\ UNCHANGED << t_key, t_db, t_tests, t_result, uuid_next >>

\* a baseline request times out: the exception ends the call with None
TimeBaselineTimeout ==
  /\ t_pc = "baseline"
  /\ t_pc' = "done"
  /\ UNCHANGED << baseline_cache, t_key, t_db, t_samples, t_baseline, t_payload,
                  t_tests, t_result, uuid_next >>

\* what a payload request does: it is answered after some time, or
\* _make_request raises asyncio.TimeoutError once its 10 s have passed
PayloadOutcomes ==
  [timed_out : {FALSE}, elapsed : PayloadTimes] \cup
  [timed_out : {TRUE}, elapsed : {TimeoutValue}]

\* lines 1683-1690 and 1699-1704: the response time given to the delay test
ScoreNoDelay(outcome) == IF outcome.timed_out THEN 0 ELSE outcome.elapsed
Score(outcome) == IF outcome.timed_out THEN TimeoutValue ELSE outcome.elapsed

\* lines 1683-1696: the first payload request
TimeFirstTest ==
  /\ t_pc = "first"
  /\ \E o \in PayloadOutcomes :
       /\ t_tests' = << [payload |-> t_payload, time |-> Score(o),
                         timed_out |-> o.timed_out] >>
       /\ t_pc' = IF DelayTest(Score(o), t_baseline) THEN "second" ELSE "done"
  /\ UNCHANGED << baseline_cache, t_key, t_db, t_samples, t_baseline, t_payload,
                  t_result, uuid_next >>

\* lines 1697-1715: the same payload once more
TimeSecondTest ==
  /\ t_pc = "second"
  /\ \E o \in PayloadOutcomes :
       /\ t_tests' = Append(t_tests, [payload |-> t_payload, time |-> Score(o),
                                       timed_out |-> o.timed_out])
       /\ IF SecondDelayTest(Score(o), t_baseline)
            THEN /\ t_result' = TimeFinding(t_payload, t_tests[1].time, t_baseline)
                 /\ FreshId
            ELSE UNCHANGED << t_result, uuid_next >>
  /\ t_pc' = "done"
  /\ UNCHANGED << baseline_cache, t_key, t_db, t_samples, t_baseline, t_payload >>

\* the caller takes the result
TimeReturn ==
  /\ t_pc = "done"
  /\ t_pc' = "idle"
  /\ UNCHANGED << baseline_cache, t_key, t_db, t_samples, t_baseline, t_payload,
                  t_tests, t_result, uuid_next >>

(***************************************************************************)
(* Rate-limited scanner (new_sql_scanner.py): the error-based probe        *)
(* _test_error_sqli and _check_false_positive.  A response text is the     *)
(* record of what the probe looks for in it; two texts are equal exactly   *)
(* when their records are.  "variant" is the rest of the page.  The        *)
(* requests go through the engine modelled above; here each is one step    *)
(* that yields a response or None.                                         *)
(***************************************************************************)
\* texts that match sql_error_patterns, in the order of their first pattern:
\* "ORA-00001" matches ora-[0-9], "SQL syntax" matches sql syntax
ErrorTexts == << "ORA-00001", "SQL syntax" >>
ErrorTextSet == { ErrorTexts[k] : k \in 1..Len(ErrorTexts) }

\* the page contents besides what the probe looks for
MaxVariants == 2

Texts ==
  [errors : SUBSET ErrorTextSet,   \* the DBMS error texts in the page
   variant : 1..MaxVariants,
   has_payload : BOOLEAN,          \* the payload appears literally
   has_value : BOOLEAN,            \* the original parameter value appears
   sql_phrase : BOOLEAN,           \* "SQL tutorial", "learn SQL", ...
   not_found : BOOLEAN,            \* '404 Not Found'
   server_error : BOOLEAN]         \* '500 Internal Server Error'

\* the baseline request carries no payload
BaselineTexts == { t \in Texts : ~t.has_payload }

NoText ==
  [errors |-> {}, variant |-> 0, has_payload |-> FALSE, has_value |-> FALSE,
   sql_phrase |-> FALSE, not_found |-> FALSE, server_error |-> FALSE]

\* payloads of selected_payloads sent in one call
MaxErrorPayloads == 2

\* any(re.search(pattern, text, re.IGNORECASE) for pattern in self.sql_error_patterns)
HasSqlError(text) == text.errors # {}

\* the text matched by the first pattern of sql_error_patterns that matches
FirstError(text) ==
  ErrorTexts[CHOOSE k \in 1..Len(ErrorTexts) :
               /\ ErrorTexts[k] \in text.errors
               /\ \A j \in 1..(k - 1) : ErrorTexts[j] \notin text.errors]

\* _identify_dbms_from_error
_identify_dbms_from_error(text) ==
  IF "ORA-00001" \in text.errors THEN "Oracle" ELSE ""

\* re.search(r'(mysql|sqlstate|syntax|oracle|sql\s+server)', response)
HasSqlDetail(text) == "SQL syntax" \in text.errors

_check_false_positive(baseline, response, original_value) ==
  \/ baseline = response
  \/ response.has_payload /\ original_value /\ baseline.has_value
  \/ baseline.sql_phrase /\ response.sql_phrase
  \/ response.not_found /\ ~baseline.not_found
  \/ response.server_error /\ ~baseline.server_error /\ ~HasSqlDetail(response)

\* line 1739: the response is skipped before the patterns are tried
SkipResponse(baseline, response) ==
  HasSqlError(baseline) /\ response = baseline

\* lines 1755-1760
Confidence(dbms_type, long_evidence) ==
  (IF dbms_type # "" THEN 100 ELSE 85) - (IF long_evidence THEN 20 ELSE 0)

VARIABLES
  tested_error_params,  \* the test ids of the cache keys added
  e_pc,          \* idle, baseline, payload, done
  e_value,       \* whether param_value is a non-empty string
  e_baseline,    \* baseline_content
  e_sent,        \* payloads sent so far
  e_result       \* ErrorNone or the vulnerability returned

errorVars == << tested_error_params, e_pc, e_value, e_baseline, e_sent, e_result >>

\* the probe's return value None
ErrorNone ==
  [id |-> 0, name |-> "None", severity |-> "None", payload |-> 0,
   error |-> "", response |-> NoText, additional_info |-> FALSE]

ErrorInit ==
  /\ tested_error_params = {}
  /\ e_pc = "idle"
  /\ e_value = FALSE
  /\ e_baseline = NoText
  /\ e_sent = 0
  /\ e_result = ErrorNone

\* lines 1764-1773 and 1788
ErrorFinding(payload, response, info) ==
  [id |-> uuid_next,
   name |-> IF _identify_dbms_from_error(response) # ""
              THEN "SQL Injection (Oracle)" ELSE "SQL Injection",
   severity |-> "high", payload |-> payload, error |-> FirstError(response),
   response |-> response, additional_info |-> info]

\* lines 1693-1705: a fresh test id makes a cache key never seen before
ErrorStart ==
  /\ e_pc = "idle"
  /\ uuid_next <= MaxIds
  /\ uuid_next \notin tested_error_params
  /\ tested_error_params' = tested_error_params \cup {uuid_next}
  /\ FreshId
  /\ \E v \in BOOLEAN : e_value' = v
  /\ e_pc' = "baseline"
  /\ e_baseline' = NoText
  /\ e_sent' = 0
  /\ e_result' = ErrorNone

\* lines 1707-1722: the baseline request
ErrorBaseline ==
  /\ e_pc = "baseline"
  /\ \/ e_pc' = "done" /\ UNCHANGED e_baseline
     \/ \E t \in BaselineTexts : e_baseline' = t /\ e_pc' = "payload"
  /\ UNCHANGED << tested_error_params, e_value, e_sent, e_result, uuid_next >>

\* lines 1725-1735: the payload request gave nothing, or raised
ErrorNoResponse ==
  /\ e_pc = "payload"
  /\ e_sent < MaxErrorPayloads
  /\ e_sent' = e_sent + 1
  /\ UNCHANGED << tested_error_params, e_pc, e_value, e_baseline, e_result, uuid_next >>

\* lines 1725-1789: one payload, from the request to the verdict.  follow_up is
\* what _perform_follow_up_tests does when it is called: "info", "none", "raise"
ErrorPayload ==
  /\ e_pc = "payload"
  /\ e_sent < MaxErrorPayloads
  /\ e_sent' = e_sent + 1
  /\ \E response \in Texts, long_evidence \in BOOLEAN, follow_up \in {"info", "none", "raise"} :
       LET confidence == Confidence(_identify_dbms_from_error(response), long_evidence)
           reported ==
             /\ ~SkipResponse(e_baseline, response)
             /\ HasSqlError(response)
             /\ ~_check_false_positive(e_baseline, response, e_value)
             /\ ~(confidence > 80 /\ follow_up = "raise")
       IN IF reported
            THEN /\ e_result' = ErrorFinding(e_sent + 1, response,
                                             confidence > 80 /\ follow_up = "info")
                 /\ FreshId
                 /\ e_pc' = "done"
            ELSE UNCHANGED << e_result, uuid_next, e_pc >>
  /\ UNCHANGED << tested_error_params, e_value, e_baseline >>

\* line 1793: the payloads are used up
ErrorExhausted ==
  /\ e_pc = "payload"
  /\ e_sent = MaxErrorPayloads
  /\ e_pc' = "done"
  /\ UNCHANGED << tested_error_params, e_value, e_baseline, e_sent, e_result, uuid_next >>

\* the caller takes the result
ErrorReturn ==
  /\ e_pc = "done"
  /\ e_pc' = "idle"
  /\ UNCHANGED << tested_error_params, e_value, e_baseline, e_sent, e_result, uuid_next >>

(***************************************************************************)
(* Consolidation: EnhancedSQLScanner._consolidate_vulnerabilities of       *)
(* enhanced_sql_scanner.py.  Evidence and descriptions are strings, built  *)
(* as the probes format them and searched character by character as the    *)
(* regular expressions do.                                                 *)
(***************************************************************************)
\* the positions where the literal lit occurs in s
FindAll(s, lit) ==
  { i \in 1..(Len(s) - Len(lit) + 1) : SubSeq(s, i, i + Len(lit) - 1) = lit }

RECURSIVE RunEnd(_, _, _)
\* the first position from j on that is past the end of s or holds a character of stops
RunEnd(s, j, stops) ==
  IF j > Len(s) \/ SubSeq(s, j, j) \in stops THEN j ELSE RunEnd(s, j + 1, stops)

SetMin(S) == CHOOSE x \in S : \A y \in S : x <= y

\* group 1 of re.search(lit + "([^']+)'", s), "" when there is no match
QuotedAfter(s, lit) ==
  LET ends(i) == RunEnd(s, i + Len(lit), {"'"})
      matches == { i \in FindAll(s, lit) : ends(i) > i + Len(lit) /\ ends(i) <= Len(s) }
  IN IF matches = {} THEN ""
     ELSE LET i == SetMin(matches) IN SubSeq(s, i + Len(lit), ends(i) - 1)

\* the characters \s matches, and the comma
SpaceOrComma == {" ", "\t", "\n", "\r", ","}

\* group 1 of re.search(lit + "([^\s,]+)", s), "" when there is no match
WordAfter(s, lit) ==
  LET ends(i) == RunEnd(s, i + Len(lit), SpaceOrComma)
      matches == { i \in FindAll(s, lit) : ends(i) > i + Len(lit) }
  IN IF matches = {} THEN ""
     ELSE LET i == SetMin(matches) IN SubSeq(s, i + Len(lit), ends(i) - 1)

\* s.startswith(prefix)
StartsWith(s, prefix) == Len(s) >= Len(prefix) /\ SubSeq(s, 1, Len(prefix)) = prefix

RECURSIVE IntToStr(_)
\* str(n) for n >= 0
IntToStr(n) ==
  LET digit == SubSeq("0123456789", (n % 10) + 1, (n % 10) + 1)
  IN IF n < 10 THEN digit ELSE IntToStr(n \div 10) \o digit

\* lines 474-481: the parameter name, from the evidence or else the description
ParamName(vuln) ==
  LET param_match == QuotedAfter(vuln.evidence, "Parameter '")
  IN IF param_match # "" THEN param_match
     ELSE WordAfter(vuln.description, "parameter: ")

\* line 484
KeyOf(vuln) == vuln.location \o ":" \o ParamName(vuln)

\* lines 487-490
PayloadOf(vuln) == QuotedAfter(vuln.evidence, "payload '")

severity_levels(sev) ==
  CASE sev = "critical" -> 4
    [] sev = "high" -> 3
    [] sev = "medium" -> 2
    [] sev = "low" -> 1
    [] OTHER -> 0

\* line 513, with the comparison left out: the first severity is kept
HigherSeverityNever(new_severity, current_severity) == FALSE

\* line 513
HigherSeverity(new_severity, current_severity) ==
  severity_levels(new_severity) > severity_levels(current_severity)

\* the index in entries of the entry with the key, 0 when there is none
EntryIndex(entries, key) ==
  IF \E k \in 1..Len(entries) : entries[k].key = key
    THEN CHOOSE k \in 1..Len(entries) : entries[k].key = key
    ELSE 0

InSeq(x, seq) == \E k \in 1..Len(seq) : seq[k] = x

\* lines 492-497: the first finding of a key becomes its entry, under a new id
NewEntry(vuln, key, payload, id) ==
  [key |-> key,
   vuln |-> [vuln EXCEPT !.id = id],
   payloads |-> IF payload # "" THEN << payload >> ELSE << >>]

\* lines 500-514: a further finding of the key is merged into its entry
MergedEntry(entry, vuln, payload) ==
  LET payloads == IF payload # "" /\ ~InSeq(payload, entry.payloads)
                    THEN Append(entry.payloads, payload) ELSE entry.payloads
      evidence == IF StartsWith(entry.vuln.evidence, "Multiple payloads")
                    THEN entry.vuln.evidence
                    ELSE "Multiple payloads were successful. Examples: "
                           \o entry.vuln.evidence
      severity == IF HigherSeverity(vuln.severity, entry.vuln.severity)
                    THEN vuln.severity ELSE entry.vuln.severity
  IN [entry EXCEPT !.payloads = payloads,
                   !.vuln = [@ EXCEPT !.evidence = evidence, !.severity = severity]]

RECURSIVE Consolidated(_, _, _)
\* lines 464-514: the dictionary, in insertion order, after the findings of vulns;
\* base is the first of the fresh ids
Consolidated(entries, vulns, base) ==
  IF vulns = << >> THEN entries
  ELSE LET vuln == Head(vulns)
           key == KeyOf(vuln)
           payload == PayloadOf(vuln)
           k == EntryIndex(entries, key)
       IN IF k = 0
            THEN Consolidated(Append(entries, NewEntry(vuln, key, payload, base + Len(entries))),
                              Tail(vulns), base)
            ELSE Consolidated([entries EXCEPT ![k] = MergedEntry(entries[k], vuln, payload)],
                              Tail(vulns), base)

RECURSIVE JoinQuoted(_)
\* ", ".join([f"'{p}'" for p in payloads])
JoinQuoted(payloads) ==
  IF payloads = << >> THEN ""
  ELSE "'" \o Head(payloads) \o "'"
         \o (IF Len(payloads) > 1 THEN ", " \o JoinQuoted(Tail(payloads)) ELSE "")

\* lines 520-529: the evidence of an entry with several payloads, and the
\* payloads dropped
Finished(entry) ==
  IF Len(entry.payloads) > 1
    THEN LET payload_examples == JoinQuoted(SubSeq(entry.payloads, 1, Min(5, Len(entry.payloads))))
             additional == IF Len(entry.payloads) > 5
                             THEN " (" \o IntToStr(Len(entry.payloads) - 5) \o " more)"
                             ELSE ""
         IN [entry.vuln EXCEPT !.evidence =
               "Multiple successful payloads: " \o payload_examples \o additional]
    ELSE entry.vuln

_consolidate_vulnerabilities(vulns, base) ==
  LET entries == Consolidated(<< >>, vulns, base)
  IN [k \in 1..Len(entries) |-> Finished(entries[k])]

\* raw findings collected before consolidation
MaxRaw == 3

\* what the raw findings are about: the kind of input, its name, the payload
RawLocations == {"http://a.test/x"}
RawInputs ==
  { << "form", "user name" >>, << "form", "user" >>,
    << "cookie", "session" >>, << "cookie", "lang" >> }
RawPayloads == {"1 OR 1=1", "1) AND SLEEP(3) --"}
Severities == {"critical", "high", "medium", "low", "info"}

\* lines 1327-1334: the finding of the error-based probe on a parameter;
\* lines 1994-2001: the finding of the cookie test.  "parameter" is the input
\* that was tested; the dictionaries of the scanner have no such key and the
\* consolidation never reads it.
RawFinding(id, location, input, payload, severity) ==
  IF input[1] = "cookie"
    THEN [id |-> id, name |-> "SQL Injection in Cookie",
          description |-> "SQL injection vulnerability detected in cookie: " \o input[2],
          severity |-> severity, location |-> location,
          evidence |-> "Cookie '" \o input[2] \o "' with payload '" \o payload
                         \o "' triggered error pattern: sql syntax",
          parameter |-> input[2]]
    ELSE [id |-> id, name |-> "SQL Injection",
          description |-> "SQL injection vulnerability detected in " \o input[1]
                            \o " parameter: " \o input[2],
          severity |-> severity, location |-> location,
          evidence |-> "Parameter '" \o input[2] \o "' with payload '" \o payload
                         \o "' triggered error pattern: sql syntax",
          parameter |-> input[2]]

VARIABLES
  c_pc,             \* collect, once, twice
  vulnerabilities,  \* the raw findings of the scan
  consolidated,     \* _consolidate_vulnerabilities(vulnerabilities)
  reconsolidated    \* _consolidate_vulnerabilities(consolidated)

consVars == << c_pc, vulnerabilities, consolidated, reconsolidated >>

ConsInit ==
  /\ c_pc = "collect"
  /\ vulnerabilities = << >>
  /\ consolidated = << >>
  /\ reconsolidated = << >>

\* scan_url, lines 415-430: a probe's finding is added to the list
CollectFinding ==
  /\ c_pc = "collect"
  /\ Len(vulnerabilities) < MaxRaw
  /\ \E location \in RawLocations, input \in RawInputs, payload \in RawPayloads,
        severity \in Severities :
       vulnerabilities' =
         Append(vulnerabilities, RawFinding(uuid_next, location, input, payload, severity))
  /\ FreshId
  /\ UNCHANGED << c_pc, consolidated, reconsolidated >>

\* scan_url, line 441: the list is consolidated
Consolidate ==
  /\ c_pc = "collect"
  /\ consolidated' = _consolidate_vulnerabilities(vulnerabilities, uuid_next)
  /\ uuid_next' = uuid_next + Len(consolidated')
  /\ c_pc' = "once"
  /\ UNCHANGED << vulnerabilities, reconsolidated >>

\* the consolidated list is consolidated again
ConsolidateAgain ==
  /\ c_pc = "once"
  /\ reconsolidated' = _consolidate_vulnerabilities(consolidated, uuid_next)
  /\ uuid_next' = uuid_next + Len(reconsolidated')
  /\ c_pc' = "twice"
  /\ UNCHANGED << vulnerabilities, consolidated >>

(***************************************************************************)
(* Rate-limited scanner: _generate_response_fingerprint and                *)
(* _similarity_score.  A page is its text together with what the HTML      *)
(* parser finds in it once script, noscript and style are removed; the     *)
(* score is the exact fraction [num, den] that the code rounds to a float. *)
(***************************************************************************)
RECURSIVE Repeat(_, _)
\* s * n
Repeat(s, n) ==
  IF n = 0 THEN ""
  ELSE LET half == Repeat(s, n \div 2)
       IN IF n % 2 = 0 THEN half \o half ELSE half \o half \o s

\* s[:n]
Prefix(s, n) == SubSeq(s, 1, Min(n, Len(s)))

\* s[-n:] for 0 < n
Suffix(s, n) == SubSeq(s, Max(1, Len(s) - n + 1), Len(s))

\* a page without markup
PlainPage(content) ==
  [content |-> content, raises |-> FALSE, headings |-> << >>, titles |-> << >>,
   meta |-> << >>, nav_items |-> << >>, paragraphs |-> << >>]

\* an HTML page with the texts of its h1-h3 and title elements
HtmlPage(content, headings, titles, paragraphs) ==
  [content |-> content, raises |-> FALSE, headings |-> headings, titles |-> titles,
   meta |-> << >>, nav_items |-> << >>, paragraphs |-> paragraphs]

\* a page on which the parser raises
BrokenPage(content) == [PlainPage(content) EXCEPT !.raises = TRUE]

\* the response bodies compared
Pages ==
  { PlainPage(""),
    PlainPage("OK"),
    PlainPage("Error: access denied"),
    PlainPage(Repeat("0123456789", 60)),
    HtmlPage("<h1></h1>", << "" >>, << >>, << >>),
    HtmlPage("<title>Shop</title><h1>Welcome</h1><p>Hello</p>",
             << "Welcome" >>, << "Shop" >>, << "Hello" >>),
    HtmlPage("<title>Shop</title><h1>Welcome</h1><p>Bye</p>",
             << "Welcome" >>, << "Shop" >>, << "Bye" >>),
    HtmlPage("<h2>" \o Repeat("ab", 30) \o "</h2>", << Repeat("ab", 30) >>, << >>, << >>),
    BrokenPage("<<<"),
    BrokenPage(Repeat("xy", 300)) }

RECURSIVE JoinWith(_, _)
\* sep.join(parts)
JoinWith(parts, sep) ==
  IF parts = << >> THEN ""
  ELSE IF Len(parts) = 1 THEN parts[1]
  ELSE parts[1] \o sep \o JoinWith(Tail(parts), sep)

\* [t[:n] for t in texts]
Truncated(texts, n) == [k \in 1..Len(texts) |-> Prefix(texts[k], n)]

RECURSIVE Snippets(_, _)
\* [content[i:i+50] for i in range(i, min(500, len(content)), 100)], i from 0
Snippets(content, i) ==
  IF i >= Min(500, Len(content)) THEN << >>
  ELSE << SubSeq(content, i + 1, Min(i + 50, Len(content))) >> \o Snippets(content, i + 100)

_generate_response_fingerprint(page) ==
  IF page.raises
    THEN IF Len(page.content) > 500
           THEN Prefix(page.content, 200) \o Suffix(page.content, 200)
           ELSE page.content
  ELSE IF page.headings = << >> /\ page.titles = << >> /\ page.paragraphs = << >>
    THEN JoinWith(Snippets(page.content, 0), "||")
  ELSE JoinWith(Truncated(page.headings, 50) \o Truncated(page.titles, 50)
                  \o Truncated(page.meta, 30) \o Truncated(page.nav_items, 20)
                  \o Truncated(SubSeq(page.paragraphs, 1, Min(5, Len(page.paragraphs))), 50),
                "||")

\* sum(1 for c1, c2 in zip(str1, str2) if c1 == c2)
CommonChars(str1, str2) ==
  Cardinality({ k \in 1..Min(Len(str1), Len(str2)) : SubSeq(str1, k, k) = SubSeq(str2, k, k) })

\* the score as a fraction in tenths of max(len): length_ratio * 0.5 below a
\* length ratio of 0.5, else length_ratio * 0.4 + common_ratio * 0.6
_similarity_score(str1, str2) ==
  IF str1 = "" \/ str2 = "" THEN [num |-> 0, den |-> 1]
  ELSE LET shorter == Min(Len(str1), Len(str2))
           longer == Max(Len(str1), Len(str2))
       IN IF 2 * shorter < longer
            THEN [num |-> 5 * shorter, den |-> 10 * longer]
            ELSE [num |-> 4 * shorter + 6 * CommonChars(str1, str2), den |-> 10 * longer]

VARIABLES
  f_pc,           \* pages, fingerprints, score, scored
  f_page1, f_page2,
  f_print1, f_print2,
  f_score

fingerprintVars == << f_pc, f_page1, f_page2, f_print1, f_print2, f_score >>

FingerprintInit ==
  /\ f_pc = "pages"
  /\ f_page1 = PlainPage("")
  /\ f_page2 = PlainPage("")
  /\ f_print1 = ""
  /\ f_print2 = ""
  /\ f_score = [num |-> 0, den |-> 1]

\* two responses arrive
ReceivePages ==
  /\ f_pc \in {"pages", "scored"}
  /\ \E p1 \in Pages, p2 \in Pages : f_page1' = p1 /\ f_page2' = p2
  /\ f_pc' = "fingerprints"
  /\ UNCHANGED << f_print1, f_print2, f_score >>

\* both are fingerprinted
FingerprintPages ==
  /\ f_pc = "fingerprints"
  /\ f_print1' = _generate_response_fingerprint(f_page1)
  /\ f_print2' = _generate_response_fingerprint(f_page2)
  /\ f_pc' = "score"
  /\ UNCHANGED << f_page1, f_page2, f_score >>

\* the fingerprints are compared
ScoreFingerprints ==
  /\ f_pc = "score"
  /\ f_score' = _similarity_score(f_print1, f_print2)
  /\ f_pc' = "scored"
  /\ UNCHANGED << f_page1, f_page2, f_print1, f_print2 >>

(***************************************************************************)
(* Rate-limited scanner: performance_stats, _update_performance_stats and  *)
(* _adjust_concurrency.  Response times are in microseconds, so that the   *)
(* moving average 0.8 * avg + 0.2 * t stays exact; the error rate is the   *)
(* fraction requests_failed / requests_total.                              *)
(***************************************************************************)
max_concurrent_requests == 10
concurrency_adjustment_interval == 10

\* response_time arguments: none, 0.625 s, 3.75 s
StatTimes == {0, 625000, 3750000}
MaxStatReports == 6

VARIABLES
  performance_stats,
  since_adjustment,   \* time.time() - last_adjustment_time, 10 standing for 10 or more
  adjust_raised       \* the last _adjust_concurrency call ended in an exception

concurrencyVars == << performance_stats, since_adjustment, adjust_raised >>

\* the counters at construction and at the start of a scan
InitialStats ==
  [requests_total |-> 0, requests_successful |-> 0, requests_failed |-> 0,
   avg_response_time |-> 0, error_rate |-> 0,
   current_concurrency |-> max_concurrent_requests,
   min_concurrency |-> Max(2, max_concurrent_requests \div 5),
   max_concurrency |-> max_concurrent_requests * 2]

ConcurrencyInit ==
  /\ performance_stats = InitialStats
  /\ since_adjustment = 0
  /\ adjust_raised = FALSE

\* the counters after _update_performance_stats(success, response_time)
StatsAfter(stats, success, response_time) ==
  IF success
    THEN [stats EXCEPT
            !.requests_total = @ + 1,
            !.requests_successful = @ + 1,
            !.avg_response_time =
               IF response_time > 0
                 THEN IF @ = 0 THEN response_time ELSE (8 * @ + 2 * response_time) \div 10
                 ELSE @]
    ELSE [stats EXCEPT !.requests_total = @ + 1, !.requests_failed = @ + 1]

_update_performance_stats(success, response_time) ==
  /\ performance_stats.requests_total < MaxStatReports
  /\ performance_stats' = StatsAfter(performance_stats, success, response_time)
  /\ UNCHANGED << since_adjustment, adjust_raised >>

UpdateStats == \E success \in BOOLEAN, t \in StatTimes : _update_performance_stats(success, t)

\* wall-clock time passes
Sleep ==
  /\ since_adjustment < concurrency_adjustment_interval
  /\ since_adjustment' =
       Min(concurrency_adjustment_interval,
           since_adjustment + concurrency_adjustment_interval \div 2)
  /\ UNCHANGED << performance_stats, adjust_raised >>

\* which branch of _adjust_concurrency the counters select
DecisionModerateFirst(stats) ==
  LET total == stats.requests_total
      failed == stats.requests_failed
      avg == stats.avg_response_time
  IN IF 10 * failed > total \/ avg > 2000000 THEN "moderate"
     ELSE IF 5 * failed > total \/ avg > 3000000 THEN "significant"
     ELSE IF 20 * failed < total /\ avg < 1000000 THEN "increase"
     ELSE "maintain"
Decision(stats) ==
  LET total == stats.requests_total
      failed == stats.requests_failed
      avg == stats.avg_response_time
  IN IF 5 * failed > total \/ avg > 3000000 THEN "significant"
     ELSE IF 10 * failed > total \/ avg > 2000000 THEN "moderate"
     ELSE IF 20 * failed < total /\ avg < 1000000 THEN "increase"
     ELSE "maintain"

\* max(min_concurrency, int(current_concurrency * num / den))
LoweredNoFloor(stats, num, den) == (stats.current_concurrency * num) \div den
Lowered(stats, num, den) ==
  Max(stats.min_concurrency, (stats.current_concurrency * num) \div den)

\* min(max_concurrency, int(current_concurrency * increase_factor)) with
\* increase_factor = min(1.2, 1 + 0.2 * (1 - error_rate) / max(0.5, avg))
Raised(stats) ==
  LET total == stats.requests_total
      good == stats.requests_total - stats.requests_failed
      slowness == Max(500000, stats.avg_response_time)
      c == stats.current_concurrency
      progressive == (c * 5 * total * (slowness \div 1000) + c * good * 1000)
                       \div (5 * total * (slowness \div 1000))
  IN Min(stats.max_concurrency, Min((c * 12) \div 10, progressive))

NewConcurrency(stats) ==
  CASE Decision(stats) = "significant" -> Lowered(stats, 1, 2)
    [] Decision(stats) = "moderate" -> Lowered(stats, 3, 4)
    [] Decision(stats) = "increase" -> Raised(stats)
    [] OTHER -> stats.current_concurrency

\* one call; the rate-limiter loop at its end reads an attribute the
\* RateLimiter does not have, so a call that gets there raises
_adjust_concurrency ==
  IF since_adjustment < concurrency_adjustment_interval
    THEN /\ adjust_raised' = FALSE
         /\ UNCHANGED << performance_stats, since_adjustment >>
  ELSE /\ since_adjustment' = 0
       /\ IF performance_stats.requests_total = 0 \/ Decision(performance_stats) = "maintain"
            THEN adjust_raised' = FALSE /\ UNCHANGED performance_stats
            ELSE /\ performance_stats' =
                      [performance_stats EXCEPT
                         !.current_concurrency = NewConcurrency(performance_stats)]
                 /\ adjust_raised' = TRUE

\* a new scan resets the counters
ResetStats ==
  /\ performance_stats.requests_total > 0
  /\ performance_stats' = InitialStats
  /\ since_adjustment' = 0
  /\ adjust_raised' = FALSE

(***************************************************************************)
(* Rate-limited scanner: scan_url.  The crawler's answer is a list of      *)
(* prioritized URLs, numbered from 0; the target decides what probing each *)
(* URL gives.  Tasks of a chunk are counted, not told apart: waiting for   *)
(* the semaphore, holding it with a request in flight, or finished.        *)
(***************************************************************************)
initial_chunk_size == 20

\* what _process_url meets at a URL: "finding" returns one Finding, "clean"
\* returns none, "raises" meets an exception before any Finding, "partial"
\* after one; every other URL is a static file
Targets ==
  { [count |-> 45, finding |-> {0, 7, 31}, clean |-> {9, 11, 13, 40},
     raises |-> {2}, partial |-> {4}],
    [count |-> 25, finding |-> {21}, clean |-> {1}, raises |-> {0}, partial |-> {}] }

NoTarget == [count |-> 0, finding |-> {}, clean |-> {}, raises |-> {}, partial |-> {}]

Probed(target) == target.finding \cup target.clean \cup target.raises \cup target.partial

VARIABLES
  s_pc,               \* idle, loop, chunk, finish, returned
  s_target,
  chunk_index,
  chunk_size,
  total_chunks,
  url_fingerprints,   \* URLs _should_scan_url has accepted
  chunk_tasks,        \* URLs of the tasks of the current chunk
  waiting,            \* tasks waiting for the semaphore
  holding,            \* tasks inside "async with semaphore"
  semaphore_limit,    \* initial value of the current semaphore
  scan_time_over,     \* time.time() - scan_start_time > scan_timeout
  feedback_loop,      \* none, running, ended, cancelled
  scan_vulnerabilities,
  scan_returned

scanVars ==
  << s_pc, s_target, chunk_index, chunk_size, total_chunks, url_fingerprints, chunk_tasks,
     waiting, holding, semaphore_limit, scan_time_over, feedback_loop,
     scan_vulnerabilities, scan_returned >>

scanLocals ==
  << s_target, chunk_index, chunk_size, total_chunks, url_fingerprints, chunk_tasks,
     waiting, holding, semaphore_limit, scan_time_over, scan_vulnerabilities, scan_returned >>

ScanInit ==
  /\ s_pc = "idle"
  /\ s_target = NoTarget
  /\ chunk_index = 0
  /\ chunk_size = initial_chunk_size
  /\ total_chunks = 0
  /\ url_fingerprints = {}
  /\ chunk_tasks = {}
  /\ waiting = 0
  /\ holding = 0
  /\ semaphore_limit = 0
  /\ scan_time_over = FALSE
  /\ feedback_loop = "none"
  /\ scan_vulnerabilities = << >>
  /\ scan_returned = << >>

RECURSIVE Ascending(_)
\* the elements of a set of numbers in increasing order
Ascending(S) ==
  IF S = {} THEN << >>
  ELSE LET least == CHOOSE x \in S : \A y \in S : x <= y
       IN << least >> \o Ascending(S \ {least})

\* the Finding probing URL u gives, with the keys _test_error_sqli writes
ScanFinding(u) ==
  [id |-> "uuid4", name |-> "SQL Injection", description |-> "detected in parameter",
   severity |-> "high", url |-> u, parameter |-> "id", evidence |-> "Payload",
   remediation |-> "Use parameterized queries"]

\* the record the exception handler of scan_url appends; url 0 is the seed
ScannerError ==
  [id |-> "uuid4", name |-> "Scanner Error", description |-> "An error occurred",
   severity |-> "info", url |-> 0, evidence |-> "str(e)",
   remediation |-> "Check if the URL is accessible"]

\* vuln with key set to value if it has no such key
WithDefault(vuln, key, value) ==
  IF key \in DOMAIN vuln THEN vuln ELSE vuln @@ (key :> value)

\* the "consistent format" loop before the return: id, url, severity, name
\* and description are supplied when absent
Formatted(vulns) ==
  [k \in 1..Len(vulns) |->
     WithDefault(WithDefault(WithDefault(WithDefault(WithDefault(vulns[k],
         "id", "uuid4"), "url", 0), "severity", "medium"),
         "name", "SQL Injection Vulnerability"),
         "description", "A SQL injection vulnerability was detected")]

\* what the task for URL u hands to gather: _process_url catches the
\* exception and returns the Findings it had
TaskResult(target, u) ==
  IF u \in target.finding \cup target.partial THEN << ScanFinding(u) >> ELSE << >>

\* chunk_results: what gather returns, in task order
GatheredUntilRaise(target, urls) ==
  [k \in 1..Len(urls) |->
     IF \E j \in 1..(k - 1) : urls[j] \in target.raises \cup target.partial
       THEN << >>
       ELSE TaskResult(target, urls[k])]
Gathered(target, urls) == [k \in 1..Len(urls) |-> TaskResult(target, urls[k])]

RECURSIVE Extended(_, _)
\* vulnerabilities after extend(result) for every list in results
Extended(vulns, results) ==
  IF results = << >> THEN vulns ELSE Extended(vulns \o Head(results), Tail(results))

\* the crawl succeeds; counters reset, semaphore and feedback loop created
ScanStart ==
  /\ s_pc = "idle"
  /\ \E target \in Targets :
       /\ s_target' = target
       /\ total_chunks' = (target.count + initial_chunk_size - 1) \div initial_chunk_size
  /\ performance_stats' = InitialStats
  /\ since_adjustment' = 0
  /\ semaphore_limit' = InitialStats.current_concurrency
  /\ feedback_loop' = "running"
  /\ s_pc' = "loop"
  /\ UNCHANGED << chunk_index, chunk_size, url_fingerprints, chunk_tasks, waiting, holding,
                  scan_time_over, scan_vulnerabilities, scan_returned, adjust_raised >>

\* the crawl raises: the handler reports a Scanner Error and the list is returned
CrawlFails ==
  /\ s_pc = "idle"
  /\ performance_stats' = InitialStats
  /\ since_adjustment' = 0
  /\ semaphore_limit' = InitialStats.current_concurrency
  /\ feedback_loop' = "running"
  /\ scan_vulnerabilities' = << ScannerError >>
  /\ scan_returned' = Formatted(<< ScannerError >>)
  /\ s_pc' = "returned"
  /\ UNCHANGED << s_target, chunk_index, chunk_size, total_chunks, url_fingerprints,
                  chunk_tasks, waiting, holding, scan_time_over, adjust_raised >>

\* prioritized_urls[start_idx:end_idx]
CurrentChunk ==
  LET start_idx == chunk_index * chunk_size
      end_idx == Min(start_idx + chunk_size, s_target.count)
  IN { u \in 0..(s_target.count - 1) : start_idx <= u /\ u < end_idx }

\* loop head within the time budget: the semaphore is recreated when the
\* concurrency differs, and one task is created per URL to scan
ChunkStartAfterTimeout ==
  /\ s_pc = "loop"
  /\ chunk_index < total_chunks
  /\ LET tasks == (CurrentChunk \cap Probed(s_target)) \ url_fingerprints
     IN /\ chunk_tasks' = tasks
        /\ url_fingerprints' = url_fingerprints \cup tasks
        /\ waiting' = Cardinality(tasks)
  /\ holding' = 0
  /\ semaphore_limit' = performance_stats.current_concurrency
  /\ s_pc' = "chunk"
  /\ UNCHANGED << s_target, chunk_index, chunk_size, total_chunks, scan_time_over,
                  feedback_loop, scan_vulnerabilities, scan_returned, concurrencyVars >>
ChunkStart ==
  /\ s_pc = "loop"
  /\ chunk_index < total_chunks
  /\ ~scan_time_over
  /\ LET tasks == (CurrentChunk \cap Probed(s_target)) \ url_fingerprints
     IN /\ chunk_tasks' = tasks
        /\ url_fingerprints' = url_fingerprints \cup tasks
        /\ waiting' = Cardinality(tasks)
  /\ holding' = 0
  /\ semaphore_limit' = performance_stats.current_concurrency
  /\ s_pc' = "chunk"
  /\ UNCHANGED << s_target, chunk_index, chunk_size, total_chunks, scan_time_over,
                  feedback_loop, scan_vulnerabilities, scan_returned, concurrencyVars >>

\* loop head after the timeout: break
TimeoutBreak ==
  /\ s_pc = "loop"
  /\ chunk_index < total_chunks
  /\ scan_time_over
  /\ s_pc' = "finish"
  /\ UNCHANGED << scanLocals, feedback_loop, concurrencyVars >>

\* the range is exhausted
LoopEnd ==
  /\ s_pc = "loop"
  /\ chunk_index = total_chunks
  /\ s_pc' = "finish"
  /\ UNCHANGED << scanLocals, feedback_loop, concurrencyVars >>

\* a task enters "async with semaphore" and sends its requests
TaskAcquire ==
  /\ s_pc = "chunk"
  /\ waiting > 0
  /\ holding < semaphore_limit
  /\ waiting' = waiting - 1
  /\ holding' = holding + 1
  /\ UNCHANGED << s_pc, s_target, chunk_index, chunk_size, total_chunks, url_fingerprints,
                  chunk_tasks, semaphore_limit, scan_time_over, feedback_loop,
                  scan_vulnerabilities, scan_returned, concurrencyVars >>

\* a task leaves the block, for its next probe or for good
TaskRelease ==
  /\ s_pc = "chunk"
  /\ holding > 0
  /\ holding' = holding - 1
  /\ \E more \in BOOLEAN : waiting' = IF more THEN waiting + 1 ELSE waiting
  /\ UNCHANGED << s_pc, s_target, chunk_index, chunk_size, total_chunks, url_fingerprints,
                  chunk_tasks, semaphore_limit, scan_time_over, feedback_loop,
                  scan_vulnerabilities, scan_returned, concurrencyVars >>

\* chunk_size after a chunk; error_rate is in thousandths
NextChunkSize ==
  IF performance_stats.error_rate < 100 /\ performance_stats.avg_response_time < 1000000
    THEN Min((chunk_size * 3) \div 2, 50)
  ELSE IF performance_stats.error_rate > 300 \/ performance_stats.avg_response_time > 3000000
    THEN Max(10, (chunk_size * 2) \div 3)
  ELSE chunk_size

\* gather has every result: the lists are appended, the chunk size adapted
ChunkEnd ==
  /\ s_pc = "chunk"
  /\ waiting = 0
  /\ holding = 0
  /\ scan_vulnerabilities' =
       Extended(scan_vulnerabilities, Gathered(s_target, Ascending(chunk_tasks)))
  /\ chunk_size' = NextChunkSize
  /\ chunk_index' = chunk_index + 1
  /\ chunk_tasks' = {}
  /\ s_pc' = "loop"
  /\ UNCHANGED << s_target, total_chunks, url_fingerprints, waiting, holding, semaphore_limit,
                  scan_time_over, feedback_loop, scan_returned, concurrencyVars >>

\* the feedback loop is cancelled and the list, already in the common
\* format, is returned
ScanFinish ==
  /\ s_pc = "finish"
  /\ feedback_loop' = "cancelled"
  /\ scan_returned' = Formatted(scan_vulnerabilities)
  /\ s_pc' = "returned"
  /\ UNCHANGED << s_target, chunk_index, chunk_size, total_chunks, url_fingerprints,
                  chunk_tasks, waiting, holding, semaphore_limit, scan_time_over,
                  scan_vulnerabilities, concurrencyVars >>

\* the scan timeout elapses
ScanTimeElapses ==
  /\ s_pc \in {"loop", "chunk"}
  /\ ~scan_time_over
  /\ scan_time_over' = TRUE
  /\ UNCHANGED << s_pc, s_target, chunk_index, chunk_size, total_chunks, url_fingerprints,
                  chunk_tasks, waiting, holding, semaphore_limit, feedback_loop,
                  scan_vulnerabilities, scan_returned, concurrencyVars >>

\* the wait of the feedback loop
FeedbackSleep ==
  /\ feedback_loop = "running"
  /\ Sleep
  /\ UNCHANGED scanVars

\* one pass of the feedback loop after its sleep; an exception ends the loop
FeedbackAdjust ==
  /\ feedback_loop = "running"
  /\ since_adjustment = concurrency_adjustment_interval
  /\ _adjust_concurrency
  /\ feedback_loop' = IF adjust_raised' THEN "ended" ELSE "running"
  /\ UNCHANGED << s_pc, scanLocals >>

\* _update_performance_stats(False) is called while a task has a request in
\* flight; the request engine itself holds no call of it
RequestFailed ==
  /\ s_pc = "chunk"
  /\ holding > 0
  /\ _update_performance_stats(FALSE, 0)
  /\ UNCHANGED scanVars

\* _update_performance_stats(True, 3.75) is called while a task has a request
\* in flight
RequestSlow ==
  /\ s_pc = "chunk"
  /\ holding > 0
  /\ _update_performance_stats(TRUE, 3750000)
  /\ UNCHANGED scanVars

(***************************************************************************)
(* Rate-limited scanner: _check_url_parameters with _test_error_sqli and   *)
(* _test_blind_sqli as it calls them, one parameter after the other.  The  *)
(* cache keys of both probes hold a fresh test id and never hit.           *)
(***************************************************************************)
\* query_params of the URLs checked, in the order of items()
ParamLists == { << "id" >>, << "id", "q" >>, << "token", "id" >> }
SecurityTokens == {"csrf", "nonce", "token"}

\* pages of the target: without an error, with a DBMS error, and a
\* 404 page quoting one
CleanPage ==
  [errors |-> {}, variant |-> 1, has_payload |-> FALSE, has_value |-> FALSE,
   sql_phrase |-> FALSE, not_found |-> FALSE, server_error |-> FALSE]
ProbeTexts ==
  { CleanPage,
    [CleanPage EXCEPT !.errors = {"SQL syntax"}],
    [CleanPage EXCEPT !.errors = {"SQL syntax"}, !.not_found = TRUE] }

\* time.time() - start_time around a payload request, ms
ElapsedTimes == {300, 2000, 4500}

\* time_delay = 5, ms
time_delay == 5000
\* baseline_response.get("elapsed", 0.5): the response has no such key
baseline_elapsed == 500

\* payloads sent per stage of the blind probe
MaxTimePayloads == 2
MaxHeavyPayloads == 1

\* expected_result of the payloads of _generate_boolean_test_payloads: for
\* each of the six styles two false conditions, then two true ones
BooleanExpected == [k \in 1..24 |-> ((k - 1) % 4) >= 2]

\* the i of range(0, len, 2), from 1 here, that are tested: a true payload
\* followed by a false one
ProperPairs ==
  { k \in 1..Len(BooleanExpected) :
      /\ k % 2 = 1
      /\ k + 1 <= Len(BooleanExpected)
      /\ BooleanExpected[k]
      /\ ~BooleanExpected[k + 1] }

VARIABLES
  p_pc,        \* idle, param, error_baseline, error_payload, blind_baseline,
               \* blind_time, blind_heavy, returned
  p_rest,      \* parameters still to test
  p_param,
  p_sent,      \* payloads sent in the current stage
  p_baseline,  \* NoText for None
  p_response,  \* the last payload response, NoText for None
  p_log,       \* history: the requests sent, by parameter and probe
  p_vulns      \* vulnerabilities

paramVars == << p_pc, p_rest, p_param, p_sent, p_baseline, p_response, p_log, p_vulns >>

ParamInit ==
  /\ p_pc = "idle"
  /\ p_rest = << >>
  /\ p_param = ""
  /\ p_sent = 0
  /\ p_baseline = NoText
  /\ p_response = NoText
  /\ p_log = << >>
  /\ p_vulns = << >>

ParamFinding(name, payload) ==
  [parameter |-> p_param, name |-> name, payload |-> payload,
   baseline |-> p_baseline, response |-> p_response']

Logged(probe) == p_log' = Append(p_log, [parameter |-> p_param, probe |-> probe])

\* the call: parse the query
CheckStart ==
  /\ p_pc = "idle"
  /\ \E params \in ParamLists : p_rest' = params
  /\ p_pc' = "param"
  /\ p_param' = ""
  /\ p_sent' = 0
  /\ p_baseline' = NoText
  /\ p_response' = NoText
  /\ p_log' = << >>
  /\ p_vulns' = << >>

\* loop head: security tokens are passed over, the others go to the error probe
NextParam ==
  /\ p_pc = "param"
  /\ p_rest # << >>
  /\ p_param' = Head(p_rest)
  /\ p_rest' = Tail(p_rest)
  /\ p_pc' = IF Head(p_rest) \in SecurityTokens THEN "param" ELSE "error_baseline"
  /\ p_sent' = 0
  /\ p_baseline' = NoText
  /\ p_response' = NoText
  /\ UNCHANGED << p_log, p_vulns >>

\* "continue" after an error-based vulnerability
BlindRunsAlways(error_vuln) == FALSE
BlindSkipped(error_vuln) == error_vuln

\* _test_error_sqli has returned error_vuln (TRUE for a vulnerability)
AfterErrorProbe(error_vuln) ==
  p_pc' = IF BlindSkipped(error_vuln) THEN "param" ELSE "blind_baseline"

\* _test_error_sqli: the baseline request; None ends the probe
ErrorProbeBaseline ==
  /\ p_pc = "error_baseline"
  /\ Logged("error")
  /\ \E baseline \in {NoText, CleanPage} :
       /\ p_baseline' = baseline
       /\ IF baseline = NoText THEN AfterErrorProbe(FALSE) ELSE p_pc' = "error_payload"
  /\ UNCHANGED << p_rest, p_param, p_sent, p_response, p_vulns >>

\* _test_error_sqli: one payload request and its verdict; a vulnerability with
\* confidence above 80 is followed up with UNION and AND requests
ErrorProbePayload ==
  /\ p_pc = "error_payload"
  /\ p_sent < MaxErrorPayloads
  /\ p_sent' = p_sent + 1
  /\ \E response \in ProbeTexts \cup {NoText}, long_evidence \in BOOLEAN :
       LET reported ==
             /\ response # NoText
             /\ ~SkipResponse(p_baseline, response)
             /\ HasSqlError(response)
             /\ ~_check_false_positive(p_baseline, response, TRUE)
           confidence == Confidence(_identify_dbms_from_error(response), long_evidence)
       IN /\ p_response' = response
          /\ IF reported
               THEN /\ p_vulns' = Append(p_vulns, ParamFinding("SQL Injection", p_sent + 1))
                    /\ p_log' =
                         Append(p_log, [parameter |-> p_param, probe |-> "error"])
                           \o (IF confidence > 80
                                 THEN << [parameter |-> p_param, probe |-> "follow_up"] >>
                                 ELSE << >>)
                    /\ AfterErrorProbe(TRUE)
               ELSE /\ Logged("error")
                    /\ UNCHANGED << p_vulns, p_pc >>
  /\ UNCHANGED << p_rest, p_param, p_baseline >>

\* _test_error_sqli: the payloads are used up
ErrorProbeExhausted ==
  /\ p_pc = "error_payload"
  /\ p_sent = MaxErrorPayloads
  /\ AfterErrorProbe(FALSE)
  /\ UNCHANGED << p_rest, p_param, p_sent, p_baseline, p_response, p_log, p_vulns >>

\* _test_blind_sqli: the baseline request; None ends the probe.  No pair of
\* boolean payloads is proper, so the time-based payloads come next
BlindBaseline ==
  /\ p_pc = "blind_baseline"
  /\ Logged("blind")
  /\ \E baseline \in {NoText, CleanPage} :
       /\ p_baseline' = baseline
       /\ p_pc' = IF baseline = NoText THEN "param"
                  ELSE IF ProperPairs = {} THEN "blind_time" ELSE "blind_boolean"
  /\ p_sent' = 0
  /\ p_response' = NoText
  /\ UNCHANGED << p_rest, p_param, p_vulns >>

\* whether a time-based payload counts as delayed
DelayedUnanswered(response, elapsed_time, threshold) == elapsed_time > threshold
Delayed(response, elapsed_time, threshold) ==
  response # NoText /\ elapsed_time > threshold

\* _test_blind_sqli: one time-based payload
BlindTimePayload ==
  /\ p_pc = "blind_time"
  /\ p_sent < MaxTimePayloads
  /\ p_sent' = p_sent + 1
  /\ Logged("blind")
  /\ \E response \in {NoText, CleanPage}, elapsed_time \in ElapsedTimes :
       /\ p_response' = response
       /\ IF Delayed(response, elapsed_time,
                     Max(baseline_elapsed * 2, (time_delay * 8) \div 10))
            THEN /\ p_vulns' = Append(p_vulns,
                                      ParamFinding("Blind Time-based SQL Injection", p_sent + 1))
                 /\ p_pc' = "param"
            ELSE UNCHANGED << p_vulns, p_pc >>
  /\ UNCHANGED << p_rest, p_param, p_baseline >>

\* _test_blind_sqli: the time-based payloads are used up
BlindTimeExhausted ==
  /\ p_pc = "blind_time"
  /\ p_sent = MaxTimePayloads
  /\ p_sent' = 0
  /\ p_pc' = "blind_heavy"
  /\ UNCHANGED << p_rest, p_param, p_baseline, p_response, p_log, p_vulns >>

\* _test_blind_sqli: one heavy query
BlindHeavyPayload ==
  /\ p_pc = "blind_heavy"
  /\ p_sent < MaxHeavyPayloads
  /\ p_sent' = p_sent + 1
  /\ Logged("blind")
  /\ \E response \in {NoText, CleanPage}, elapsed_time \in ElapsedTimes :
       /\ p_response' = response
       /\ IF Delayed(response, elapsed_time, baseline_elapsed * 3)
            THEN /\ p_vulns' = Append(p_vulns,
                                      ParamFinding("Blind SQL Injection (Heavy Query)", p_sent + 1))
                 /\ p_pc' = "param"
            ELSE UNCHANGED << p_vulns, p_pc >>
  /\ UNCHANGED << p_rest, p_param, p_baseline >>

\* _test_blind_sqli: nothing found
BlindExhausted ==
  /\ p_pc = "blind_heavy"
  /\ p_sent = MaxHeavyPayloads
  /\ p_pc' = "param"
  /\ UNCHANGED << p_rest, p_param, p_sent, p_baseline, p_response, p_log, p_vulns >>

\* every parameter is done: return vulnerabilities
CheckReturn ==
  /\ p_pc = "param"
  /\ p_rest = << >>
  /\ p_pc' = "returned"
  /\ UNCHANGED << p_rest, p_param, p_sent, p_baseline, p_response, p_log, p_vulns >>

\* the next URL
CheckAgain ==
  /\ p_pc = "returned"
  /\ p_pc' = "idle"
  /\ UNCHANGED << p_rest, p_param, p_sent, p_baseline, p_response, p_log, p_vulns >>

(***************************************************************************)
(* Rate-limited scanner: _prioritize_urls.  A URL is its text with what    *)
(* the patterns of the function find in it.                                *)
(***************************************************************************)
PlainUrl(url) ==
  [url |-> url, id_param |-> FALSE, search_param |-> FALSE, auth_param |-> FALSE,
   equal_signs |-> 0, vulnerable_extension |-> FALSE, vulnerable_endpoint |-> FALSE,
   number_in_path |-> FALSE]

\* the URLs the crawler can discover
UrlPool ==
  { [PlainUrl("http://a.test/item.php?id=5") EXCEPT
       !.id_param = TRUE, !.equal_signs = 1, !.vulnerable_extension = TRUE,
       !.vulnerable_endpoint = TRUE],
    [PlainUrl("http://a.test/find?q=x") EXCEPT !.search_param = TRUE, !.equal_signs = 1],
    [PlainUrl("http://a.test/page?lang=en") EXCEPT !.equal_signs = 1],
    [PlainUrl("http://a.test/admin/") EXCEPT !.vulnerable_endpoint = TRUE],
    [PlainUrl("http://a.test/news/42") EXCEPT !.number_in_path = TRUE],
    PlainUrl("http://a.test/about"),
    PlainUrl("http://a.test/logo.png") }

\* the list a URL is appended to
Priority(u) ==
  IF u.id_param THEN "high"
  ELSE IF u.search_param THEN "high"
  ELSE IF u.auth_param THEN "high"
  ELSE IF u.equal_signs > 2 THEN "high"
  ELSE IF u.vulnerable_extension /\ u.equal_signs > 0 THEN "high"
  ELSE IF u.equal_signs > 0 THEN "medium"
  ELSE IF u.vulnerable_endpoint THEN "medium"
  ELSE IF u.number_in_path THEN "medium"
  ELSE "low"

\* the elements of a list
InList(list) == { list[k] : k \in 1..Len(list) }

RECURSIVE Orders(_)
\* the orders in which the elements of a set can come
Orders(S) ==
  IF S = {} THEN { << >> }
  ELSE UNION { { << x >> \o rest : rest \in Orders(S \ {x}) } : x \in S }

\* high_priority + medium_priority + low_priority
CombinedMediumFirst(high, medium, low) == medium \o high \o low
Combined(high, medium, low) == high \o medium \o low

VARIABLES
  pr_pc,       \* idle, classified, shuffled, returned
  pr_urls,     \* the argument
  high_priority,
  medium_priority,
  low_priority,
  pr_result

prioritizeVars == << pr_pc, pr_urls, high_priority, medium_priority, low_priority, pr_result >>

PrioritizeInit ==
  /\ pr_pc = "idle"
  /\ pr_urls = {}
  /\ high_priority = << >>
  /\ medium_priority = << >>
  /\ low_priority = << >>
  /\ pr_result = << >>

\* the URLs of one priority, in the order the set is iterated
Appended(order, priority) == SelectSeq(order, LAMBDA u : Priority(u) = priority)

\* the call and the loop over urls
Classify ==
  /\ pr_pc = "idle"
  /\ \E urls \in SUBSET UrlPool :
       /\ pr_urls' = urls
       /\ \E order \in Orders(urls) :
            /\ high_priority' = Appended(order, "high")
            /\ medium_priority' = Appended(order, "medium")
            /\ low_priority' = Appended(order, "low")
  /\ pr_result' = << >>
  /\ pr_pc' = "classified"

\* random.shuffle of each list
Shuffle ==
  /\ pr_pc = "classified"
  /\ \E h \in Orders(InList(high_priority)), m \in Orders(InList(medium_priority)),
        l \in Orders(InList(low_priority)) :
       /\ high_priority' = h
       /\ medium_priority' = m
       /\ low_priority' = l
  /\ pr_pc' = "shuffled"
  /\ UNCHANGED << pr_urls, pr_result >>

\* return
PrioritizeReturn ==
  /\ pr_pc = "shuffled"
  /\ pr_result' = Combined(high_priority, medium_priority, low_priority)
  /\ pr_pc' = "returned"
  /\ UNCHANGED << pr_urls, high_priority, medium_priority, low_priority >>

\* the caller takes the list; the lists of the call are gone
PrioritizeDone ==
  /\ pr_pc = "returned"
  /\ pr_pc' = "idle"
  /\ pr_urls' = {}
  /\ high_priority' = << >>
  /\ medium_priority' = << >>
  /\ low_priority' = << >>
  /\ pr_result' = << >>

(***************************************************************************)
(* RateLimiter.acquire and wait_for_token called by several workers for    *)
(* one host.  The body of acquire is taken line by line (refill, test,     *)
(* consume) so that the part self.lock plays shows; it holds no await, so  *)
(* the clock reading of line 85 serves the whole body.  No report reaches  *)
(* the limiter here: the rate stays rate_limit.                            *)
(***************************************************************************)
Workers == {"w1", "w2", "w3"}
NoWorker == "none"
NoOffer == 0 - 1
\* acquire calls admitted before the workers stop asking, clock ticks of 50 ms
MaxAdmitted == 12
MaxPollTicks == 6

VARIABLES
  w_pc,              \* per worker: idle, acquire, refilled, checked, sleeping
  w_wake,            \* per worker: end of the sleep after a rejected poll
  lock,              \* the worker inside "async with self.lock", or NoWorker
  admitted_total,    \* history: acquire calls that returned True
  offered,           \* history: the bucket after the first refill since the clock moved
  instant_admitted,  \* history: calls admitted since the clock moved
  instant_done       \* history: calls returned since the clock moved

workerVars ==
  << w_pc, w_wake, lock, admitted_total, offered, instant_admitted, instant_done >>

WorkersInit ==
  /\ w_pc = [w \in Workers |-> "idle"]
  /\ w_wake = [w \in Workers |-> 0]
  /\ lock = NoWorker
  /\ admitted_total = 0
  /\ offered = NoOffer
  /\ instant_admitted = 0
  /\ instant_done = 0

\* "async with self.lock": the body is entered only while nobody is in it
UnlockedAlways == TRUE
Unlocked == lock = NoWorker

\* a worker needs a token: wait_for_token, no consecutive errors
WorkerCall(w) ==
  /\ w_pc[w] = "idle"
  /\ admitted_total < MaxAdmitted
  /\ w_pc' = [w_pc EXCEPT ![w] = "acquire"]
  /\ UNCHANGED << rlVars, w_wake, lock, admitted_total, offered, instant_admitted,
                  instant_done >>

\* acquire, lines 84-93: take the lock and add the tokens of the elapsed time
WorkerRefill(w) ==
  /\ w_pc[w] = "acquire"
  /\ Unlocked
  /\ lock' = w
  /\ token_bucket' = [token_bucket EXCEPT ![RequestHost] = Refilled(RequestHost)]
  /\ offered' = IF offered = NoOffer THEN Refilled(RequestHost) ELSE offered
  /\ w_pc' = [w_pc EXCEPT ![w] = "refilled"]
  /\ UNCHANGED << now, last_request_time, rateVars, w_wake, admitted_total,
                  instant_admitted, instant_done >>

\* acquire, line 96: the test; lines 100-102 and 128-137: False is returned,
\* the lock released and wait_for_token sleeps before the next poll
WorkerTest(w) ==
  /\ w_pc[w] = "refilled"
  /\ IF token_bucket[RequestHost] >= 1000
       THEN /\ w_pc' = [w_pc EXCEPT ![w] = "checked"]
            /\ UNCHANGED << w_wake, lock, instant_done >>
       ELSE /\ \E j \in PollJitter :
                 w_wake' = [w_wake EXCEPT ![w] = now + PollWait(RequestHost, j)]
            /\ w_pc' = [w_pc EXCEPT ![w] = "sleeping"]
            /\ lock' = NoWorker
            /\ instant_done' = instant_done + 1
  /\ UNCHANGED << rlVars, admitted_total, offered, instant_admitted >>

\* acquire, lines 97-99: one token is taken, True is returned, the lock released
WorkerConsume(w) ==
  /\ w_pc[w] = "checked"
  /\ token_bucket' = [token_bucket EXCEPT ![RequestHost] = @ - 1000]
  /\ last_request_time' = [last_request_time EXCEPT ![RequestHost] = now]
  /\ lock' = NoWorker
  /\ admitted_total' = admitted_total + 1
  /\ instant_admitted' = instant_admitted + 1
  /\ instant_done' = instant_done + 1
  /\ w_pc' = [w_pc EXCEPT ![w] = "idle"]
  /\ UNCHANGED << now, rateVars, w_wake, offered >>

\* wait_for_token, line 128: the sleep is over, acquire is called again
WorkerWake(w) ==
  /\ w_pc[w] = "sleeping"
  /\ now >= w_wake[w]
  /\ w_pc' = [w_pc EXCEPT ![w] = "acquire"]
  /\ w_wake' = [w_wake EXCEPT ![w] = 0]
  /\ UNCHANGED << rlVars, lock, admitted_total, offered, instant_admitted, instant_done >>

\* the wall clock moves while no worker is inside the body
WorkersTick ==
  /\ \A w \in Workers : w_pc[w] \notin {"refilled", "checked"}
  /\ \E d \in Delays :
       /\ now + d <= StartTime + MaxPollTicks * 50
       /\ now' = now + d
  /\ offered' = NoOffer
  /\ instant_admitted' = 0
  /\ instant_done' = 0
  /\ UNCHANGED << last_request_time, token_bucket, rateVars, w_pc, w_wake, lock,
                  admitted_total >>

(***************************************************************************)
(* Rate-limited scanner: the semaphore of a chunk as the tasks of           *)
(* _process_url use it.  A task probes the URL parameters inside "async    *)
(* with semaphore" (_test_error_sqli), then enters the block of            *)
(* _check_forms and, still inside it, calls _test_error_sqli for every     *)
(* injectable form field.                                                  *)
(***************************************************************************)
Tasks == {"t1", "t2", "t3"}
\* values of performance_stats["current_concurrency"] at the head of a chunk
PermitLimits == {2, 3}
\* injectable fields on the page of a task
MaxFields == 1

VARIABLES
  permit_pc,       \* per task: none, params, probe, before_forms, forms, field_wait,
                   \* field_probe, done
  permit_limit,    \* asyncio.Semaphore(current_concurrency)
  permit_free,     \* semaphore._value
  permit_fields    \* per task: form fields still to probe

permitVars == << permit_pc, permit_limit, permit_free, permit_fields >>

PermitInit ==
  /\ permit_pc = [t \in Tasks |-> "none"]
  /\ permit_limit = 0
  /\ permit_free = 0
  /\ permit_fields = [t \in Tasks |-> 0]

\* permits task t holds
Held(t) ==
  IF permit_pc[t] \in {"probe", "forms", "field_wait"} THEN 1
  ELSE IF permit_pc[t] = "field_probe" THEN 2
  ELSE 0

\* scan_url, lines 1102-1126: the semaphore of the chunk and one task per URL
PermitChunkStart ==
  /\ \A t \in Tasks : permit_pc[t] \in {"none", "done"}
  /\ \E limit \in PermitLimits, urls \in (SUBSET Tasks) \ {{}},
        fields \in [Tasks -> 0..MaxFields] :
       /\ permit_limit' = limit
       /\ permit_free' = limit
       /\ permit_pc' = [t \in Tasks |-> IF t \in urls THEN "params" ELSE "none"]
       /\ permit_fields' = [t \in Tasks |-> IF t \in urls THEN fields[t] ELSE 0]

\* _check_url_parameters -> _test_error_sqli, line 1707
ProbeAcquire(t) ==
  /\ permit_pc[t] = "params"
  /\ permit_free > 0
  /\ permit_free' = permit_free - 1
  /\ permit_pc' = [permit_pc EXCEPT ![t] = "probe"]
  /\ UNCHANGED << permit_limit, permit_fields >>

\* the block of _test_error_sqli is left
ProbeRelease(t) ==
  /\ permit_pc[t] = "probe"
  /\ permit_free' = permit_free + 1
  /\ permit_pc' = [permit_pc EXCEPT ![t] = "before_forms"]
  /\ UNCHANGED << permit_limit, permit_fields >>

\* _check_forms, line 2546
FormsAcquire(t) ==
  /\ permit_pc[t] = "before_forms"
  /\ permit_free > 0
  /\ permit_free' = permit_free - 1
  /\ permit_pc' = [permit_pc EXCEPT ![t] = "forms"]
  /\ UNCHANGED << permit_limit, permit_fields >>

\* _check_forms, lines 2673-2680: the next field is handed to _test_error_sqli
FieldCall(t) ==
  /\ permit_pc[t] = "forms"
  /\ permit_fields[t] > 0
  /\ permit_fields' = [permit_fields EXCEPT ![t] = @ - 1]
  /\ permit_pc' = [permit_pc EXCEPT ![t] = "field_wait"]
  /\ UNCHANGED << permit_limit, permit_free >>

\* _test_error_sqli, line 1707, reached from inside the block of _check_forms
FieldAcquire(t) ==
  /\ permit_pc[t] = "field_wait"
  /\ permit_free > 0
  /\ permit_free' = permit_free - 1
  /\ permit_pc' = [permit_pc EXCEPT ![t] = "field_probe"]
  /\ UNCHANGED << permit_limit, permit_fields >>

\* the field probe returns to _check_forms
FieldRelease(t) ==
  /\ permit_pc[t] = "field_probe"
  /\ permit_free' = permit_free + 1
  /\ permit_pc' = [permit_pc EXCEPT ![t] = "forms"]
  /\ UNCHANGED << permit_limit, permit_fields >>

\* _check_forms returns and the task ends
FormsRelease(t) ==
  /\ permit_pc[t] = "forms"
  /\ permit_fields[t] = 0
  /\ permit_free' = permit_free + 1
  /\ permit_pc' = [permit_pc EXCEPT ![t] = "done"]
  /\ UNCHANGED << permit_limit, permit_fields >>

(***************************************************************************)
(* Rate-limited scanner: one time-based payload of _test_blind_sqli, sent  *)
(* through _send_payload_request and the request engine.  The clock is the *)
(* engine's; start_time is read before the request enters the engine.      *)
(***************************************************************************)
\* the time the target takes to answer a delay payload, ms
TargetTimes == {100, 4500}
\* delay payloads sent
MaxDelayProbes == 1

VARIABLES
  d_pc,        \* idle, sent
  d_start,     \* start_time
  d_target,    \* history: the time the target took for the response returned
  d_elapsed,   \* elapsed_time
  d_result     \* none, finding

delayVars == << d_pc, d_start, d_target, d_elapsed, d_result >>

DelayInit ==
  /\ d_pc = "idle"
  /\ d_start = 0
  /\ d_target = 0
  /\ d_elapsed = 0
  /\ d_result = "none"

\* max(baseline_response_time * 2, time_delay * 0.8)
DelayThreshold == Max(baseline_elapsed * 2, (time_delay * 8) \div 10)

\* lines 2290-2293: start_time = time.time(), then the request is handed to
\* _make_rate_limited_request
DelaySend ==
  /\ d_pc = "idle"
  /\ requests_made < MaxDelayProbes
  /\ StartRequest
  /\ d_start' = now
  /\ d_target' = 0
  /\ d_elapsed' = 0
  /\ d_result' = "none"
  /\ d_pc' = "sent"

\* the engine waits for its token, backs off, or meets a failed attempt
DelayEngineStep ==
  /\ d_pc = "sent"
  /\ WaitBackoff \/ WaitPoll \/ PerformFailure
  /\ UNCHANGED delayVars

\* the target answers the payload after rt
DelayAnswered ==
  /\ d_pc = "sent"
  /\ \E rt \in TargetTimes :
       /\ PerformSuccessAfter(rt)
       /\ d_target' = rt
  /\ UNCHANGED << d_pc, d_start, d_elapsed, d_result >>

\* lines 2294-2314: elapsed_time = time.time() - start_time and the delay test
DelayMeasure ==
  /\ d_pc = "sent"
  /\ ReturnToCaller
  /\ LET elapsed_time == now - d_start
         delay_response == IF req_result = "response" THEN CleanPage ELSE NoText
     IN /\ d_elapsed' = elapsed_time
        /\ d_result' = IF Delayed(delay_response, elapsed_time, DelayThreshold)
                         THEN "finding" ELSE "none"
  /\ d_pc' = "idle"
  /\ UNCHANGED << d_start, d_target >>

(***************************************************************************)
(* Rate-limited scanner: scan_url called again on the same scanner.  What  *)
(* __init__ creates (url_fingerprints, the RateLimiter) is there for every *)
(* call; scan_url itself assigns performance_stats.  The crawler answers   *)
(* each call with the same URLs.                                           *)
(***************************************************************************)
\* discovered_urls
CrawledUrls == {"http://a.test/item?id=1", "http://a.test/list?cat=2", "http://a.test/logo.png"}
\* "Skip common static file extensions"
StaticUrls == {"http://a.test/logo.png"}
\* scan_url calls on the scanner, failed requests in them
MaxScans == 2
MaxScanErrors == 3

VARIABLES
  r_pc,            \* idle, scanning, returned
  r_scan,          \* scan_url calls begun
  r_considered,    \* URLs handed to _should_scan_url in this call
  r_dispatched,    \* URLs for which it returned True in this call
  r_first,         \* history: r_dispatched of the first call
  r_start_rate,    \* history: domain_limits of the host when this call began
  r_start_errors   \* history: consecutive_errors of the host when it began

\* the variables of scan_url other than url_fingerprints
scanOthers ==
  << s_pc, s_target, chunk_index, chunk_size, total_chunks, chunk_tasks, waiting, holding,
     semaphore_limit, scan_time_over, feedback_loop, scan_vulnerabilities, scan_returned >>

rescanVars ==
  << r_pc, r_scan, r_considered, r_dispatched, r_first, r_start_rate, r_start_errors >>

RescanInit ==
  /\ r_pc = "idle"
  /\ r_scan = 0
  /\ r_considered = {}
  /\ r_dispatched = {}
  /\ r_first = {}
  /\ r_start_rate = rate_limit
  /\ r_start_errors = 0

\* _should_scan_url(url): the return value against the fingerprints seen; the
\* fingerprint of a URL stands for the URL, as in scan_url above
_should_scan_url(url, seen) == url \notin StaticUrls /\ url \notin seen

\* scan_url, lines 991-1036: performance_stats is assigned anew; nothing else
\* of the scanner is
RescanStart ==
  /\ r_pc \in {"idle", "returned"}
  /\ r_scan < MaxScans
  /\ r_scan' = r_scan + 1
  /\ performance_stats' = InitialStats
  /\ since_adjustment' = 0
  /\ r_considered' = {}
  /\ r_dispatched' = {}
  /\ r_start_rate' = domain_limits[RequestHost]
  /\ r_start_errors' = consecutive_errors[RequestHost]
  /\ r_pc' = "scanning"
  /\ UNCHANGED << r_first, url_fingerprints, rlVars, adjust_raised >>

\* the chunk loop asks _should_scan_url about a URL; an accepted URL is
\* remembered and dispatched
RescanConsider ==
  /\ r_pc = "scanning"
  /\ \E url \in CrawledUrls \ r_considered :
       /\ r_considered' = r_considered \cup {url}
       /\ IF _should_scan_url(url, url_fingerprints)
            THEN /\ url_fingerprints' = url_fingerprints \cup {url}
                 /\ r_dispatched' = r_dispatched \cup {url}
            ELSE UNCHANGED << url_fingerprints, r_dispatched >>
  /\ UNCHANGED << r_pc, r_scan, r_first, r_start_rate, r_start_errors, rlVars,
                  concurrencyVars >>

\* a request of a dispatched URL fails and is reported to the rate limiter
RescanRequestFails ==
  /\ r_pc = "scanning"
  /\ r_dispatched # {}
  /\ domain_failures[RequestHost] < MaxScanErrors
  /\ \E k \in ErrorKinds : ReportErrorEffect(RequestHost, k)
  /\ UNCHANGED << now, last_request_time, token_bucket, rescanVars, url_fingerprints,
                  concurrencyVars >>

\* every URL was considered: scan_url returns
RescanReturn ==
  /\ r_pc = "scanning"
  /\ r_considered = CrawledUrls
  /\ r_first' = IF r_scan = 1 THEN r_dispatched ELSE r_first
  /\ r_pc' = "returned"
  /\ UNCHANGED << r_scan, r_considered, r_dispatched, r_start_rate, r_start_errors,
                  url_fingerprints, rlVars, concurrencyVars >>

(***************************************************************************)
(* Scan job runner (scanner_service.py): ScannerService.start_scan and     *)
(* _run_scan with _update_scan_status, _update_scan_message and            *)
(* _update_scan_progress.  One job at a time; times are in seconds since   *)
(* _run_scan began, and time passes while a scanner runs.                  *)
(***************************************************************************)
\* asyncio.timeout(300), asyncio.timeout(120)
OverallDeadline == 300
ScannerDeadline == 120
\* "completed_scanners": 0 in the scan record; nothing ever writes it again
RecordCompleted == 0

\* ScannerType values a request may name
ScannerTypes == {"basic", "xss", "sql_injection"}
\* scanners named by one request
MaxScanners == 3
\* the durations of a scanner that ends by itself
ScannerTimes == {10, 110}

\* scan_request.scanners: every list of distinct types, the empty one included
ScannerLists ==
  { s \in UNION { [1..n -> ScannerTypes] : n \in 0..MaxScanners } :
      \A i, j \in DOMAIN s : s[i] = s[j] => i = j }

VARIABLES
  job_pc,          \* none, queued, loop, scanner, ended
  job_scanners,    \* scanners
  job_index,       \* position of the for loop in scanners
  job_status,      \* "status" of the scan record
  job_message,     \* "message" of the scan record
  job_progress,    \* "progress" of the scan record
  job_completed,   \* the local completed_scanners
  job_types,       \* completed_scanner_types
  job_ran,         \* history: the scanners begun, in order
  job_results,     \* results
  job_saved,       \* findings of the ScanResult saved, NotSaved before
  job_elapsed,     \* time.time() - start_time
  job_active       \* scan_id in _active_scans

jobVars ==
  << job_pc, job_scanners, job_index, job_status, job_message, job_progress,
     job_completed, job_types, job_ran, job_results, job_saved, job_elapsed, job_active >>

\* no ScanResult saved: a list no run of the scanners produces
NotSaved == << [name |-> "not saved", severity |-> "none", scanner |-> "none"] >>

JobInit ==
  /\ job_pc = "none"
  /\ job_scanners = << >>
  /\ job_index = 1
  /\ job_status = "none"
  /\ job_message = "none"
  /\ job_progress = 0
  /\ job_completed = 0
  /\ job_types = {}
  /\ job_ran = << >>
  /\ job_results = << >>
  /\ job_saved = NotSaved
  /\ job_elapsed = 0
  /\ job_active = FALSE

\* _update_scan_message, lines 545-549: the progress it writes
MessageProgress(total) ==
  IF total > 0 THEN Min((RecordCompleted * 100) \div total, 99) ELSE 0

\* line 207: progress = 10 + int(80 * (completed_scanners / total_scanners))
LoopProgress(completed, total) == 10 + (80 * completed) \div total

\* what a scanner that ran for d seconds leaves in results
ScannerFinding(scanner_type) ==
  [name |-> "finding", severity |-> "high", scanner |-> scanner_type]
TimeoutRecord(scanner_type) ==
  [name |-> "Scanner Timeout", severity |-> "info", scanner |-> scanner_type]
ErrorRecord(scanner_type) ==
  [name |-> "Scanner Error", severity |-> "info", scanner |-> scanner_type]

\* the overall deadline passes before a scanner begun at elapsed, which would
\* run for d seconds, ends or reaches its own deadline
DeadlineFiresAtSubDeadline(elapsed, d) ==
  d >= ScannerDeadline \/ elapsed + d >= OverallDeadline
DeadlineFires(elapsed, d) == elapsed + Min(d, ScannerDeadline) >= OverallDeadline

\* start_scan: the scan record is created and _run_scan scheduled
JobStart ==
  /\ job_pc = "none"
  /\ \E scanners \in ScannerLists : job_scanners' = scanners
  /\ job_status' = "queued"
  /\ job_message' = "Scan queued"
  /\ job_progress' = 0
  /\ job_active' = TRUE
  /\ job_index' = 1
  /\ job_completed' = 0
  /\ job_types' = {}
  /\ job_ran' = << >>
  /\ job_results' = << >>
  /\ job_saved' = NotSaved
  /\ job_elapsed' = 0
  /\ job_pc' = "queued"

\* _run_scan, lines 113-127: status running, progress 10
JobRun ==
  /\ job_pc = "queued"
  /\ job_status' = "running"
  /\ job_message' = "Initializing scanners"
  /\ job_progress' = 10
  /\ job_pc' = "loop"
  /\ UNCHANGED << job_scanners, job_index, job_completed, job_types, job_ran,
                  job_results, job_saved, job_elapsed, job_active >>

\* lines 130-135: the next scanner begins; _update_scan_message writes the
\* message and a progress computed from the record's completed_scanners
JobScannerBegins ==
  /\ job_pc = "loop"
  /\ job_index <= Len(job_scanners)
  /\ job_message' = "Running scanner"
  /\ job_progress' = MessageProgress(Len(job_scanners))
  /\ job_ran' = Append(job_ran, job_scanners[job_index])
  /\ job_pc' = "scanner"
  /\ UNCHANGED << job_scanners, job_index, job_status, job_completed, job_types,
                  job_results, job_saved, job_elapsed, job_active >>

\* lines 205-208 after a scanner, whatever its outcome
AfterScanner(d) ==
  /\ job_completed' = job_completed + 1
  /\ job_progress' = LoopProgress(job_completed + 1, Len(job_scanners))
  /\ job_elapsed' = job_elapsed + d
  /\ job_index' = job_index + 1
  /\ job_pc' = "loop"
  /\ UNCHANGED << job_scanners, job_status, job_message, job_ran, job_saved,
                  job_active >>

\* lines 137-174: scan_url returns its list in time
JobScannerReturns ==
  /\ job_pc = "scanner"
  /\ \E d \in ScannerTimes, found \in BOOLEAN :
       /\ ~DeadlineFires(job_elapsed, d)
       /\ job_results' =
            IF found THEN Append(job_results, ScannerFinding(job_scanners[job_index]))
            ELSE job_results
       /\ job_types' = job_types \cup {job_scanners[job_index]}
       /\ AfterScanner(d)

\* lines 176-189: the scanner exceeds its 2 minutes
JobScannerTimesOut ==
  /\ job_pc = "scanner"
  /\ ~DeadlineFires(job_elapsed, ScannerDeadline)
  /\ job_results' = Append(job_results, TimeoutRecord(job_scanners[job_index]))
  /\ UNCHANGED job_types
  /\ AfterScanner(ScannerDeadline)

\* lines 191-203: the scanner, or its import, raises
JobScannerRaises ==
  /\ job_pc = "scanner"
  /\ \E d \in ScannerTimes :
       /\ ~DeadlineFires(job_elapsed, d)
       /\ job_results' = Append(job_results, ErrorRecord(job_scanners[job_index]))
       /\ UNCHANGED job_types
       /\ AfterScanner(d)

\* lines 259-262 and 269-272: the overall deadline passes while a scanner
\* runs; the handler marks the scan failed and the job leaves _active_scans
JobDeadline ==
  /\ job_pc = "scanner"
  /\ \E d \in ScannerTimes \cup {ScannerDeadline} :
       /\ DeadlineFires(job_elapsed, d)
       /\ job_elapsed' = Min(OverallDeadline, job_elapsed + Min(d, ScannerDeadline))
  /\ job_status' = "failed"
  /\ job_message' = "Scan timed out after 5 minutes"
  /\ job_active' = FALSE
  /\ job_pc' = "ended"
  /\ UNCHANGED << job_scanners, job_index, job_progress, job_completed, job_types,
                  job_ran, job_results, job_saved >>

\* lines 210-257 and 269-272: the result is built from results and saved, to
\* the database or to a file; then status completed, progress 100
JobFinish ==
  /\ job_pc = "loop"
  /\ job_index > Len(job_scanners)
  /\ job_saved' = job_results
  /\ job_status' = "completed"
  /\ job_message' = "Scan completed successfully"
  /\ job_progress' = 100
  /\ job_active' = FALSE
  /\ job_pc' = "ended"
  /\ UNCHANGED << job_scanners, job_index, job_completed, job_types, job_ran,
                  job_results, job_elapsed >>

\* lines 264-272: building or saving the result raises; the handler marks the
\* scan failed
JobOrchestrationFails ==
  /\ job_pc = "loop"
  /\ job_index > Len(job_scanners)
  /\ job_status' = "failed"
  /\ job_message' = "Scan failed"
  /\ job_active' = FALSE
  /\ job_pc' = "ended"
  /\ UNCHANGED << job_scanners, job_index, job_progress, job_completed, job_types,
                  job_ran, job_results, job_saved, job_elapsed >>

(***************************************************************************)
(* RateLimiter.wait_for_token called by a single waiter, after any reports *)
(* and any earlier acquire calls.  The call is the engine's "backoff" and  *)
(* "acquire" steps; "perform" is the state in which it has returned.       *)
(***************************************************************************)
\* reports and wait_for_token calls explored
MaxWaitReports == 7
MaxWaitCalls == 1
\* the response time reported with a success before the call: slow
WaitResponseTimes == {3000}

VARIABLES
  wait_polled,   \* history: acquire returned False during this call
  wait_taken     \* history: tokens this call took from the bucket

waitVars == << wait_polled, wait_taken >>

WaitInit ==
  /\ wait_polled = FALSE
  /\ wait_taken = 0

wait_report_error ==
  /\ req_pc = "idle"
  /\ \E k \in ErrorKinds :
       /\ domain_failures[RequestHost] + domain_successes[RequestHost] < MaxWaitReports
       /\ ReportErrorEffect(RequestHost, k)
  /\ UNCHANGED << now, last_request_time, token_bucket, reqVars, waitVars >>

wait_report_success ==
  /\ req_pc = "idle"
  /\ \E rt \in WaitResponseTimes :
       /\ domain_failures[RequestHost] + domain_successes[RequestHost] < MaxWaitReports
       /\ ReportSuccessEffect(RequestHost, rt)
  /\ UNCHANGED << now, last_request_time, token_bucket, reqVars, waitVars >>

\* an earlier request's acquire call
WaitDrain ==
  /\ req_pc = "idle"
  /\ AcquireEffect(RequestHost)
  /\ UNCHANGED << now, rateVars, reqVars, waitVars >>

\* wait_for_token(domain) is called
WaitCall ==
  /\ req_pc = "idle"
  /\ requests_made < MaxWaitCalls
  /\ requests_made' = requests_made + 1
  /\ req_pc' = "backoff"
  /\ wait_polled' = FALSE
  /\ wait_taken' = 0
  /\ UNCHANGED << rlVars, retry_count, req_result, req_status, outcomes, domain_throttling >>

\* lines 114-125: the sleep after consecutive errors
WaitDelay == WaitBackoff /\ UNCHANGED waitVars

\* lines 128-137: one acquire; False is followed by the sleep
WaitTry ==
  /\ WaitPoll
  /\ wait_polled' = (wait_polled \/ ~Admitted(RequestHost))
  /\ wait_taken' =
       wait_taken + (Refilled(RequestHost) - token_bucket'[RequestHost]) \div 1000

\* the caller goes on with its token
WaitReturn ==
  /\ req_pc = "perform"
  /\ req_pc' = "idle"
  /\ UNCHANGED << rlVars, retry_count, req_result, req_status, outcomes, requests_made,
                  domain_throttling, waitVars >>

(***************************************************************************)
(* Concurrency controller while every request succeeds: the counters of    *)
(* one scan are fed with successes only, and _adjust_concurrency is called *)
(* whenever its interval has passed.                                       *)
(***************************************************************************)
\* successful requests counted in the scan
MaxRecoveryRequests == 12
\* slow requests, at the start of the scan
MaxSlowRequests == 1

\* _adjust_concurrency, line 1391: error_rate < 0.05 and avg_response_time < 1.0
GoodPerformance(stats) ==
  /\ stats.requests_total > 0
  /\ 20 * stats.requests_failed < stats.requests_total
  /\ stats.avg_response_time < 1000000

\* a request succeeds and is counted: the first ones after 0.625 s or 3.75 s,
\* the later ones after 0.625 s
RecoveryRequest ==
  /\ performance_stats.requests_total < MaxRecoveryRequests
  /\ \E t \in StatTimes \ {0} :
       /\ t > 1000000 => performance_stats.requests_total < MaxSlowRequests
       /\ performance_stats' = StatsAfter(performance_stats, TRUE, t)
  /\ UNCHANGED << since_adjustment, adjust_raised >>

(***************************************************************************)
(* Specifications                                                          *)
(***************************************************************************)
vars == << rlVars, reqVars, uuid_next, unionVars, boolVars, timeVars, errorVars, consVars, fingerprintVars, concurrencyVars, scanVars, paramVars, prioritizeVars, workerVars, permitVars, delayVars, rescanVars, jobVars, waitVars >>

Init == RLInit /\ now = StartTime /\ ReqInit /\ uuid_next = 1 /\ UnionInit
  /\ BoolInit
  /\ TimeInit
  /\ ErrorInit
  /\ ConsInit
  /\ FingerprintInit
  /\ ConcurrencyInit
  /\ ScanInit
  /\ ParamInit
  /\ PrioritizeInit
  /\ WorkersInit
  /\ PermitInit
  /\ DelayInit
  /\ RescanInit
  /\ JobInit
  /\ WaitInit

limiterOnly == << reqVars, uuid_next, unionVars, boolVars, timeVars, errorVars, consVars, fingerprintVars, concurrencyVars, scanVars, paramVars, prioritizeVars, workerVars, permitVars, delayVars, rescanVars, jobVars, waitVars >>
engineOnly == << uuid_next, unionVars, boolVars, timeVars, errorVars, consVars, fingerprintVars, concurrencyVars, scanVars, paramVars, prioritizeVars, workerVars, permitVars, delayVars, rescanVars, jobVars, waitVars >>
unionOnly == << rlVars, reqVars, boolVars, timeVars, errorVars, consVars, fingerprintVars, concurrencyVars, scanVars, paramVars, prioritizeVars, workerVars, permitVars, delayVars, rescanVars, jobVars, waitVars >>
boolOnly == << rlVars, reqVars, unionVars, timeVars, errorVars, consVars, fingerprintVars, concurrencyVars, scanVars, paramVars, prioritizeVars, workerVars, permitVars, delayVars, rescanVars, jobVars, waitVars >>
timeOnly == << rlVars, reqVars, unionVars, boolVars, errorVars, consVars, fingerprintVars, concurrencyVars, scanVars, paramVars, prioritizeVars, workerVars, permitVars, delayVars, rescanVars, jobVars, waitVars >>
errorOnly == << rlVars, reqVars, unionVars, boolVars, timeVars, consVars, fingerprintVars, concurrencyVars, scanVars, paramVars, prioritizeVars, workerVars, permitVars, delayVars, rescanVars, jobVars, waitVars >>
consOnly == << rlVars, reqVars, unionVars, boolVars, timeVars, errorVars, fingerprintVars, concurrencyVars, scanVars, paramVars, prioritizeVars, workerVars, permitVars, delayVars, rescanVars, jobVars, waitVars >>
fingerprintOnly == << rlVars, reqVars, uuid_next, unionVars, boolVars, timeVars, errorVars, consVars, concurrencyVars, scanVars, paramVars, prioritizeVars, workerVars, permitVars, delayVars, rescanVars, jobVars, waitVars >>
concurrencyOnly == << rlVars, reqVars, uuid_next, unionVars, boolVars, timeVars, errorVars, consVars, fingerprintVars, scanVars, paramVars, prioritizeVars, workerVars, permitVars, delayVars, rescanVars, jobVars, waitVars >>
scanOnly == << rlVars, reqVars, uuid_next, unionVars, boolVars, timeVars, errorVars, consVars, fingerprintVars, paramVars, prioritizeVars, workerVars, permitVars, delayVars, rescanVars, jobVars, waitVars >>
paramOnly == << rlVars, reqVars, uuid_next, unionVars, boolVars, timeVars, errorVars, consVars, fingerprintVars, concurrencyVars, scanVars, prioritizeVars, workerVars, permitVars, delayVars, rescanVars, jobVars, waitVars >>
prioritizeOnly == << rlVars, reqVars, uuid_next, unionVars, boolVars, timeVars, errorVars, consVars, fingerprintVars, concurrencyVars, scanVars, paramVars, workerVars, permitVars, delayVars, rescanVars, jobVars, waitVars >>
workersOnly == << reqVars, uuid_next, unionVars, boolVars, timeVars, errorVars, consVars, fingerprintVars, concurrencyVars, scanVars, paramVars, prioritizeVars, permitVars, delayVars, rescanVars, jobVars, waitVars >>
permitOnly == << rlVars, reqVars, uuid_next, unionVars, boolVars, timeVars, errorVars, consVars, fingerprintVars, concurrencyVars, scanVars, paramVars, prioritizeVars, workerVars, delayVars, rescanVars, jobVars, waitVars >>
delayOnly == << uuid_next, unionVars, boolVars, timeVars, errorVars, consVars, fingerprintVars, concurrencyVars, scanVars, paramVars, prioritizeVars, workerVars, permitVars, rescanVars, jobVars, waitVars >>
rescanOnly == << reqVars, uuid_next, unionVars, boolVars, timeVars, errorVars, consVars, fingerprintVars, scanOthers, paramVars, prioritizeVars, workerVars, permitVars, delayVars, jobVars, waitVars >>
jobOnly == << rlVars, reqVars, uuid_next, unionVars, boolVars, timeVars, errorVars, consVars, fingerprintVars, concurrencyVars, scanVars, paramVars, prioritizeVars, workerVars, permitVars, delayVars, rescanVars, waitVars >>
waitOnly == << uuid_next, unionVars, boolVars, timeVars, errorVars, consVars, fingerprintVars, concurrencyVars, scanVars, paramVars, prioritizeVars, workerVars, permitVars, delayVars, rescanVars, jobVars >>

RateNext == (report_error \/ report_success) /\ UNCHANGED limiterOnly
SpecRate == Init /\ [][RateNext]_vars

BucketNext ==
  (acquire \/ Tick \/ bucket_report_error \/ bucket_report_success) /\ UNCHANGED limiterOnly
SpecBucket == Init /\ [][BucketNext]_vars

RequestNext ==
  (StartRequest \/ WaitBackoff \/ WaitPoll \/ PerformSuccess \/ PerformFailure \/ ReturnToCaller)
    /\ UNCHANGED engineOnly
SpecRequest == Init /\ [][RequestNext]_vars

UnionNext ==
  (UnionStart \/ UnionBaseline \/ UnionSend \/ UnionExhausted \/ UnionCheckMarker \/ UnionReturn)
    /\ UNCHANGED unionOnly
SpecUnion == Init /\ [][UnionNext]_vars

BoolNext ==
  (BoolStart \/ BoolOriginal \/ BoolTrue \/ BoolExhausted \/ BoolFalse
     \/ BoolConfirmTrue \/ BoolConfirmFalse \/ BoolReturn)
    /\ UNCHANGED boolOnly
SpecBool == Init /\ [][BoolNext]_vars

TimeNext ==
  (TimeStart \/ TimeBaselineSample \/ TimeBaselineTimeout \/ TimeFirstTest
     \/ TimeSecondTest \/ TimeReturn)
    /\ UNCHANGED timeOnly
SpecTime == Init /\ [][TimeNext]_vars

ErrorNext ==
  (ErrorStart \/ ErrorBaseline \/ ErrorNoResponse \/ ErrorPayload \/ ErrorExhausted
     \/ ErrorReturn)
    /\ UNCHANGED errorOnly
SpecError == Init /\ [][ErrorNext]_vars

ConsolidateNext ==
  (CollectFinding \/ Consolidate \/ ConsolidateAgain) /\ UNCHANGED consOnly
SpecConsolidate == Init /\ [][ConsolidateNext]_vars

FingerprintNext ==
  (ReceivePages \/ FingerprintPages \/ ScoreFingerprints) /\ UNCHANGED fingerprintOnly
SpecFingerprint == Init /\ [][FingerprintNext]_vars

ConcurrencyNext ==
  (UpdateStats \/ Sleep \/ _adjust_concurrency \/ ResetStats) /\ UNCHANGED concurrencyOnly
SpecConcurrency == Init /\ [][ConcurrencyNext]_vars

ScanNext ==
  (ScanStart \/ CrawlFails \/ ChunkStart \/ TimeoutBreak \/ LoopEnd \/ TaskAcquire
     \/ TaskRelease \/ ChunkEnd \/ ScanFinish \/ ScanTimeElapses \/ FeedbackSleep
     \/ FeedbackAdjust \/ RequestFailed \/ RequestSlow) /\ UNCHANGED scanOnly
SpecScan == Init /\ [][ScanNext]_vars

ParamNext ==
  (CheckStart \/ NextParam \/ ErrorProbeBaseline \/ ErrorProbePayload \/ ErrorProbeExhausted
     \/ BlindBaseline \/ BlindTimePayload \/ BlindTimeExhausted \/ BlindHeavyPayload
     \/ BlindExhausted \/ CheckReturn \/ CheckAgain) /\ UNCHANGED paramOnly
SpecParams == Init /\ [][ParamNext]_vars

PrioritizeNext ==
  (Classify \/ Shuffle \/ PrioritizeReturn \/ PrioritizeDone) /\ UNCHANGED prioritizeOnly
SpecPrioritize == Init /\ [][PrioritizeNext]_vars

WorkersNext ==
  ((\E w \in Workers : WorkerCall(w) \/ WorkerRefill(w) \/ WorkerTest(w)
                         \/ WorkerConsume(w) \/ WorkerWake(w))
     \/ WorkersTick) /\ UNCHANGED workersOnly
SpecWorkers == Init /\ [][WorkersNext]_vars

PermitNext ==
  (PermitChunkStart
     \/ (\E t \in Tasks : ProbeAcquire(t) \/ ProbeRelease(t) \/ FormsAcquire(t) \/ FieldCall(t)
                            \/ FieldAcquire(t) \/ FieldRelease(t) \/ FormsRelease(t)))
    /\ UNCHANGED permitOnly
SpecPermits == Init /\ [][PermitNext]_vars

DelayNext ==
  (DelaySend \/ DelayEngineStep \/ DelayAnswered \/ DelayMeasure) /\ UNCHANGED delayOnly
SpecDelay == Init /\ [][DelayNext]_vars

RescanNext ==
  (RescanStart \/ RescanConsider \/ RescanRequestFails \/ RescanReturn)
    /\ UNCHANGED rescanOnly
SpecRescan == Init /\ [][RescanNext]_vars

JobNext ==
  (JobStart \/ JobRun \/ JobScannerBegins \/ JobScannerReturns \/ JobScannerTimesOut
     \/ JobScannerRaises \/ JobDeadline \/ JobFinish \/ JobOrchestrationFails)
    /\ UNCHANGED jobOnly
SpecJob == Init /\ [][JobNext]_vars

WaitNext ==
  (wait_report_error \/ wait_report_success \/ WaitDrain \/ WaitCall \/ WaitDelay \/ WaitTry
     \/ WaitReturn) /\ UNCHANGED waitOnly
\* asyncio.sleep returns and the loop of wait_for_token goes on
SpecWait ==
  Init /\ [][WaitNext]_vars /\ WF_vars((WaitDelay \/ WaitTry) /\ UNCHANGED waitOnly)

RecoveryNext ==
  (RecoveryRequest \/ Sleep \/ _adjust_concurrency) /\ UNCHANGED concurrencyOnly
\* the feedback loop sleeps and calls _adjust_concurrency again and again
SpecRecovery ==
  Init /\ [][RecoveryNext]_vars
    /\ WF_vars(Sleep /\ UNCHANGED concurrencyOnly)
    /\ WF_vars(_adjust_concurrency /\ UNCHANGED concurrencyOnly)

(***************************************************************************)
(* Properties                                                              *)
(***************************************************************************)
\* C1: for every host, whatever report_success / report_error calls were made,
\* the host's current rate lies in [min_rate_limit, max_rate_limit] =
\* [0.1 req/s, 5 x rate_limit].
RateInRange ==
  \A h \in Hosts :
    min_rate_limit <= domain_limits[h] /\ domain_limits[h] <= max_rate_limit

\* the rate was raised until the cap at 5 x rate_limit applied
RateAtCap == \E h \in Hosts : domain_limits[h] = max_rate_limit

\* C2: for every host, whatever acquire calls were made and whenever, the token
\* count lies in [0, burst_limit].
TokensInRange ==
  \A h \in Hosts : 0 <= token_bucket[h] /\ token_bucket[h] <= burst_limit

\* a bucket refilled after its first use and then consumed down to zero
BucketDrainedAfterRefill ==
  \E h \in Hosts : token_bucket[h] = 0 /\ last_request_time[h] > StartTime

\* C3: only transient failures are retried: every attempt but the last of a call
\* failed transiently (so a critical failure ends the call at once), a call makes
\* at most 1 + retries attempts, and a call that ends without a response returns
\* None, after a critical failure or after 1 + retries transient ones.
RetriesTransientOnly ==
  /\ Len(outcomes) <= 1 + retries
  /\ \A i \in 1..(Len(outcomes) - 1) : outcomes[i] = "transient"
  /\ req_pc = "done" =>
       /\ Len(outcomes) >= 1
       /\ req_result \in {"response", "none"}
       /\ req_result = "none" <=> outcomes[Len(outcomes)] # "success"
       /\ outcomes[Len(outcomes)] = "transient" => Len(outcomes) = 1 + retries

\* a call that failed transiently 1 + retries times and returned None
GaveUpAfterRetries ==
  /\ req_pc = "done"
  /\ req_result = "none"
  /\ Len(outcomes) = 1 + retries
  /\ outcomes[Len(outcomes)] = "transient"

\* C4: the UNION probe returns a Finding only if a verification request with a
\* marker of its own, at the column count and position of the reflected marker,
\* came back with that marker in the response; a reflected marker alone is not
\* enough.
UnionNeedsConfirmation ==
  u_result # UnionNone =>
    /\ MarkerReflected(u_result.marker, u_response, u_baseline)
    /\ u_verify = [cols |-> u_result.cols, pos |-> u_result.marker, marked |-> TRUE]

\* the probe returned a Finding for a 3-column payload
UnionFindingReturned ==
  /\ u_pc = "done"
  /\ u_result # UnionNone
  /\ u_result.cols = 3

\* C5: the boolean-blind probe returns a Finding only if the pair under test
\* differed (length delta above 10 and similarity below 0.9) and, after that, a
\* second pair different from it was sent, both of its requests were answered
\* and its two responses differ in length by more than 10 as well.
BoolNeedsConfirmation ==
  b_result # BoolNone =>
    /\ IsCandidate(b_true, b_false)
    /\ b_confirm \in 1..Len(test_pairs)
    /\ b_confirm # b_pair
    /\ b_result.true_payload = test_pairs[b_pair][1]
    /\ b_confirm_true.kind = "body"
    /\ b_confirm_false.kind = "body"
    /\ LenDiff(b_confirm_true.body, b_confirm_false.body) > 10

\* "Welcome" against "Error: access denied" made the parameter a candidate, and
\* the Finding was returned after the confirmation pair differed too
BoolFindingAfterConfirmation ==
  /\ b_pc = "done"
  /\ b_result # BoolNone
  /\ b_true = "welcome"
  /\ b_false = "denied"

\* C6: the time-blind probe returns a Finding only after two timed tests in a
\* row with the same payload, both passing the delay test; a call that ended
\* after a slow test and a fast repeat returns nothing, and a call that ended
\* after two slow tests returns one Finding of severity high.
TimeNeedsTwoSlowTests ==
  /\ t_result # TimeNone =>
        /\ Len(t_tests) = 2
        /\ t_tests[1].payload = t_tests[2].payload
        /\ t_result.payload = t_tests[1].payload
        /\ DelayTest(t_tests[1].time, t_baseline)
        /\ DelayTest(t_tests[2].time, t_baseline)
        /\ t_result.severity = "high"
  /\ (t_pc = "done" /\ Len(t_tests) = 2) =>
        /\ DelayTest(t_tests[1].time, t_baseline)
        /\ DelayTest(t_tests[2].time, t_baseline) <=> t_result # TimeNone

\* baseline 0.2 s from three samples, the payload answered after 4.0 s twice,
\* and the Finding was returned
TimeTwoSlowTests ==
  /\ t_pc = "done"
  /\ t_samples = << 200, 200, 200 >>
  /\ Len(t_tests) = 2
  /\ t_tests[1].time = 4000
  /\ t_tests[2].time = 4000
  /\ t_result # TimeNone

\* C7: the error-based probe of the rate-limited scanner returns a Finding only
\* for a response that holds a DBMS error text absent from the baseline; error
\* texts the baseline already holds produce no Finding, whatever else differs
\* between the two responses.
ErrorTextAbsentFromBaseline ==
  e_result # ErrorNone => ~(e_result.response.errors \subseteq e_baseline.errors)

\* the findings of a list with their identities left out
WithoutIds(findings) == [k \in 1..Len(findings) |-> [findings[k] EXCEPT !.id = 0]]

\* C8: consolidation is idempotent: consolidating the consolidated list yields
\* the same findings as consolidating once (compared with the identities left
\* out, as every consolidation draws fresh ones).
ConsolidationIdempotent ==
  c_pc = "twice" => WithoutIds(reconsolidated) = WithoutIds(consolidated)

RECURSIVE KeysOf(_)
\* the keys of the findings, in their order
KeysOf(vulns) ==
  IF vulns = << >> THEN << >> ELSE << KeyOf(Head(vulns)) >> \o KeysOf(Tail(vulns))

RECURSIVE FirstKeys(_, _)
\* the distinct keys among keys, in the order of their first occurrence
FirstKeys(keys, seen) ==
  IF keys = << >> THEN seen
  ELSE FirstKeys(Tail(keys),
                 IF InSeq(Head(keys), seen) THEN seen ELSE Append(seen, Head(keys)))

\* C9: the consolidated finding of each group carries the highest severity of
\* the group's raw findings under critical > high > medium > low > info, in
\* whatever order the raw findings come.
SeverityIsGroupMax ==
  c_pc # "collect" =>
    LET keys == KeysOf(vulnerabilities)
        groups == FirstKeys(keys, << >>)
    IN /\ Len(consolidated) = Len(groups)
       /\ \A k \in 1..Len(groups) :
            LET group == { j \in 1..Len(keys) : keys[j] = groups[k] }
            IN /\ \E j \in group : vulnerabilities[j].severity = consolidated[k].severity
               /\ \A j \in group :
                    severity_levels(vulnerabilities[j].severity)
                      <= severity_levels(consolidated[k].severity)

\* a medium finding followed by a critical one on the same parameter became one
\* critical finding
MediumThenCritical ==
  /\ c_pc = "once"
  /\ Len(vulnerabilities) = 2
  /\ vulnerabilities[1].severity = "medium"
  /\ vulnerabilities[2].severity = "critical"
  /\ Len(consolidated) = 1
  /\ consolidated[1].severity = "critical"

\* the (location, parameter) pairs of the findings
Pairs(findings) ==
  { << findings[k].location, findings[k].parameter >> : k \in 1..Len(findings) }

\* C10: the consolidated list holds exactly one finding for each distinct
\* (location, parameter) pair of the raw findings: no two of its findings share
\* a pair and no pair of the raw findings is missing.
OneFindingPerPair ==
  c_pc # "collect" =>
    /\ Len(consolidated) = Cardinality(Pairs(vulnerabilities))
    /\ Pairs(consolidated) = Pairs(vulnerabilities)

\* C11: for any response body x, an empty one or one with an empty fingerprint
\* included, the similarity score of the fingerprint of x with itself is 1.0.
SelfSimilarityIsOne ==
  (f_pc = "scored" /\ f_page1 = f_page2) => f_score.num = f_score.den

\* C12: after any sequence of controller adjustments the current concurrency
\* lies between the configured minimum and the configured maximum.
ConcurrencyInRange ==
  /\ performance_stats.min_concurrency <= performance_stats.current_concurrency
  /\ performance_stats.current_concurrency <= performance_stats.max_concurrency

\* an adjustment has just lowered the concurrency to the minimum
ConcurrencyAtMinimum ==
  /\ adjust_raised
  /\ since_adjustment = 0
  /\ performance_stats.current_concurrency = performance_stats.min_concurrency

\* C13: one adjustment halves the concurrency when the error rate is above
\* 0.2 or the average response time above 3.0 s, otherwise lowers it by 25%
\* when the error rate is above 0.1 or the average above 2.0 s, otherwise
\* raises it by at most 20% when the error rate is below 0.05 and the average
\* below 1.0 s, and otherwise leaves it unchanged (never below the minimum,
\* never above the maximum).
AdjustmentFollowsThresholds ==
  [][ ( /\ since_adjustment = concurrency_adjustment_interval
        /\ since_adjustment' = 0
        /\ performance_stats.requests_total > 0
        /\ performance_stats'.requests_total = performance_stats.requests_total )
      => LET total == performance_stats.requests_total
             failed == performance_stats.requests_failed
             avg == performance_stats.avg_response_time
             before == performance_stats.current_concurrency
             after == performance_stats'.current_concurrency
             lowest == performance_stats.min_concurrency
         IN IF 5 * failed > total \/ avg > 3000000
              THEN after = Max(lowest, before \div 2)
            ELSE IF 10 * failed > total \/ avg > 2000000
              THEN after = Max(lowest, (3 * before) \div 4)
            ELSE IF 20 * failed < total /\ avg < 1000000
              THEN /\ before <= after
                   /\ 5 * after <= 6 * before
                   /\ after <= performance_stats.max_concurrency
            ELSE after = before ]_vars

\* an adjustment has just lowered the concurrency by 25% for an error rate
\* between 0.1 and 0.2
ModerateReduction ==
  /\ adjust_raised
  /\ since_adjustment = 0
  /\ 10 * performance_stats.requests_failed > performance_stats.requests_total
  /\ 5 * performance_stats.requests_failed <= performance_stats.requests_total
  /\ performance_stats.avg_response_time <= 3000000
  /\ performance_stats.current_concurrency = 7

TimeoutKeepsFindings ==
  /\ [][ (s_pc = "loop" /\ scan_time_over) => s_pc' # "chunk" ]_vars
  /\ [] ( (s_pc = "returned" /\ scan_time_over)
           => \A u \in url_fingerprints \cap (s_target.finding \cup s_target.partial) :
                ScanFinding(u) \in InList(scan_returned) )

\* the loop was left early for the timeout and findings are returned
ReturnedAfterTimeout ==
  /\ s_pc = "returned"
  /\ scan_time_over
  /\ chunk_index < total_chunks
  /\ ScanFinding(7) \in InList(scan_returned)

\* C18: an exception raised while probing one URL never aborts the scan: the
\* other URLs of its chunk and the later chunks are processed and their
\* findings returned.
ExceptionDoesNotAbort ==
  (s_pc = "returned" /\ ~scan_time_over /\ s_target # NoTarget)
    => /\ chunk_index = total_chunks
       /\ \A u \in url_fingerprints \cap s_target.finding :
            ScanFinding(u) \in InList(scan_returned)

\* URL 2 raised; URL 7 of the same chunk and URL 31 of the next were probed
\* and their findings returned
ReturnedDespiteException ==
  /\ s_pc = "returned"
  /\ ~scan_time_over
  /\ 2 \in url_fingerprints /\ 2 \in s_target.raises
  /\ ScanFinding(7) \in InList(scan_returned)
  /\ ScanFinding(31) \in InList(scan_returned)

\* C16: a response with status 429, 502, 503 or 504 is handled as a transient
\* failure and one with status 500, 501, 401 or 403 as a critical failure;
\* neither is reported to the rate limiter as a success.
ErrorStatusNotSuccess ==
  (req_pc = "done" /\ req_status \in {429, 502, 503, 504, 500, 501, 401, 403})
    => /\ outcomes[Len(outcomes)] =
            (IF req_status \in {429, 502, 503, 504} THEN "transient" ELSE "critical")
       /\ req_result = "none"

\* C17: for each URL parameter the error-based probe runs before any blind
\* probe; when it returns a Finding no blind request is sent for that
\* parameter; a parameter contributes at most one Finding.
ErrorProbeFirst ==
  /\ \A i, j \in 1..Len(p_log) :
       (i < j /\ p_log[i].parameter = p_log[j].parameter /\ p_log[i].probe = "blind")
         => p_log[j].probe = "blind"
  /\ \A k \in 1..Len(p_vulns) :
       p_vulns[k].name = "SQL Injection"
         => ~\E i \in 1..Len(p_log) :
               p_log[i].parameter = p_vulns[k].parameter /\ p_log[i].probe = "blind"
  /\ \A k, l \in 1..Len(p_vulns) :
       p_vulns[k].parameter = p_vulns[l].parameter => k = l

\* the error probe found "id" vulnerable and "q" went on to the blind probe
ErrorFindingThenNextParam ==
  /\ p_pc = "returned"
  /\ \E k \in 1..Len(p_vulns) : p_vulns[k].parameter = "id" /\ p_vulns[k].name = "SQL Injection"
  /\ \E i \in 1..Len(p_log) : p_log[i].parameter = "q" /\ p_log[i].probe = "blind"

\* C19: a probe whose baseline or payload request got no response emits no
\* Finding: every Finding comes from a baseline and a payload response that
\* were received.
FindingFromResponses ==
  \A k \in 1..Len(p_vulns) : p_vulns[k].baseline # NoText /\ p_vulns[k].response # NoText

\* the baseline was received, the last payload of the blind probe got no
\* response, however late, and the check returns without a Finding
NoResponseNoFinding ==
  /\ p_pc = "returned"
  /\ p_baseline # NoText
  /\ p_response = NoText
  /\ p_sent = MaxHeavyPayloads
  /\ p_log[Len(p_log)].probe = "blind"
  /\ p_vulns = << >>

\* C20: _prioritize_urls returns a permutation of its input set, every URL
\* exactly once, with every high-priority URL before every medium-priority
\* one and every medium-priority URL before every low-priority one, whatever
\* the shuffles give.
PrioritizedPermutation ==
  pr_pc = "returned"
    => /\ Len(pr_result) = Cardinality(pr_urls)
       /\ InList(pr_result) = pr_urls
       /\ \A i, j \in 1..Len(pr_result) :
            i < j => ~( \/ Priority(pr_result[i]) = "low" /\ Priority(pr_result[j]) # "low"
                        \/ Priority(pr_result[i]) = "medium" /\ Priority(pr_result[j]) = "high" )

\* all seven URLs returned, the three tiers present, in an order that is not
\* the one the lists were filled in
ShuffledTiersReturned ==
  /\ pr_pc = "returned"
  /\ pr_urls = UrlPool
  /\ pr_result[1].url = "http://a.test/find?q=x"
  /\ pr_result[2].url = "http://a.test/item.php?id=5"
  /\ pr_result[7].url = "http://a.test/about"
\* C21: every record of the list scan_url returns carries the keys id, name,
\* severity, url, parameter, evidence and remediation, whichever way the scan
\* ended.
ReturnedRecordsComplete ==
  s_pc = "returned" =>
    \A k \in 1..Len(scan_returned) :
      {"id", "name", "severity", "url", "parameter", "evidence", "remediation"}
        \subseteq DOMAIN scan_returned[k]

\* C22: the read-modify-write of the token bucket is atomic per host: when
\* several workers call acquire for the same host at one clock reading and
\* the bucket then holds at least one token and less than two, exactly one
\* of the calls that returned was admitted.
AcquireAtomic ==
  (1000 <= offered /\ offered < 2000)
    => instant_admitted = (IF instant_done > 0 THEN 1 ELSE 0)

\* three calls for the last token returned at one clock reading
ThreeCallsOneToken ==
  /\ 1000 <= offered /\ offered < 2000
  /\ instant_done = 3
  /\ instant_admitted = 1

\* C23: elapsed time is credited once: at the constant rate rate_limit the
\* calls admitted since the start are at most burst_limit plus rate_limit
\* times the time elapsed, however many polls were rejected in between.
AdmissionsWithinRate ==
  admitted_total * 1000 <= burst_limit + NewTokens(now - StartTime, rate_limit)

\* C24: when the scan timeout does not fire, every prioritized URL that
\* passes _should_scan_url has been dispatched to _process_url by the time
\* scan_url returns, however the chunk size was adjusted between chunks.
EveryUrlDispatched ==
  (s_pc = "returned" /\ s_target # NoTarget /\ ~scan_time_over)
    => Probed(s_target) \subseteq url_fingerprints

\* C25: processing a chunk always finishes: the tasks never reach a state in
\* which every permit of the semaphore is held by a task that is itself
\* waiting for another permit of the same semaphore.
PermitsNeverAllNested ==
  ~( /\ permit_limit > 0
     /\ permit_free = 0
     /\ \A t \in Tasks : Held(t) > 0 => permit_pc[t] = "field_wait" )

\* C26: every request outcome of the request engine is recorded in
\* performance_stats: after N attempts have completed, requests_total = N =
\* requests_successful + requests_failed.
OutcomesRecorded ==
  /\ performance_stats.requests_total
       = domain_successes[RequestHost] + domain_failures[RequestHost]
  /\ performance_stats.requests_total
       = performance_stats.requests_successful + performance_stats.requests_failed

FeedbackLoopStoppedAtReturn ==
  s_pc = "returned" => feedback_loop # "running"

\* C29: for a parameter whose baseline was captured, the boolean stage of
\* _test_blind_sqli sends at least one TRUE/FALSE pair: when the probe has
\* moved past that stage, the list of _generate_boolean_test_payloads held a
\* true payload followed by a false one at some positions (2i, 2i+1).
BooleanPairSent ==
  (p_pc = "blind_time" /\ p_baseline # NoText) => ProperPairs # {}

\* C30: one report_success call raises the current rate of a host only when
\* the rolling average response time is below 0.5 s and the host has at
\* least 5 consecutive successes, and then by a factor of at most 1.2.
SuccessRaisesOnlyWhenFast ==
  [][\A h \in Hosts :
       domain_limits'[h] > domain_limits[h]
         => /\ performance_data'[h].avg_response_time < 500
            /\ consecutive_successes'[h] >= 5
            /\ domain_limits'[h] * 10 <= domain_limits[h] * 12]_vars

\* C31: a report_error call sets consecutive_successes to 0, adds one to
\* consecutive_errors, and leaves the host's rate at max(0.1, rate * 0.5) for a
\* critical error, at max(0.1, rate * 0.7) for a transient error that is the
\* third or later in a row, and unchanged for a first or second transient
\* error in a row.
ReportErrorAdjustsRate ==
  [][\A h \in Hosts :
       domain_failures'[h] = domain_failures[h] + 1 =>
         /\ consecutive_successes'[h] = 0
         /\ consecutive_errors'[h] = consecutive_errors[h] + 1
         /\ domain_limits'[h] >= 100
         /\ domain_limits'[h] =
              IF domain_error_types'[h]["critical"] # domain_error_types[h]["critical"]
                THEN IF (domain_limits[h] * 5) \div 10 < 100
                       THEN 100 ELSE (domain_limits[h] * 5) \div 10
              ELSE IF consecutive_errors[h] >= 2
                THEN IF (domain_limits[h] * 7) \div 10 < 100
                       THEN 100 ELSE (domain_limits[h] * 7) \div 10
              ELSE domain_limits[h]]_vars

\* the third transient error in a row took the rate from 5.0 to 3.5 req/s, after
\* two that left it at 5.0
ThirdTransientError ==
  \E h \in Hosts :
    /\ consecutive_errors[h] = 3
    /\ domain_error_types[h]["transient"] = 3
    /\ domain_failures[h] = 3
    /\ domain_successes[h] = 0
    /\ domain_limits[h] = 3500

\* C32: in the time-blind probe a first payload response whose response time
\* exceeds threshold = max(2.5 s, 2 x baseline) is always followed by the second
\* test with the same payload, and when the second response time exceeds the
\* threshold too a Finding is returned.
SlowResponseRepeated ==
  LET Exceeds(i) ==
        BaselineSamples * t_tests[i].time >
          Max(BaselineSamples * MinThreshold, 2 * t_baseline)
  IN /\ (t_pc = "done" /\ Len(t_tests) >= 1 /\ Exceeds(1)) => Len(t_tests) = 2
     /\ (t_pc = "done" /\ Len(t_tests) = 2 /\ Exceeds(1) /\ Exceeds(2)) =>
          t_result # TimeNone

\* C33: a payload request of the time-blind probe that times out does not end
\* the probe: it is scored as a response time equal to the timeout value, 10 s,
\* in the delay test, as the first test and as the repeated test: after a first
\* test that timed out the second test is made whenever 10 s passes the delay
\* test, and a second test that timed out gives the Finding whenever 10 s
\* passes it.
TimeoutScoredAsDelay ==
  /\ \A i \in 1..Len(t_tests) : t_tests[i].timed_out => t_tests[i].time = TimeoutValue
  /\ (t_pc = "done" /\ Len(t_tests) >= 1 /\ t_tests[1].timed_out
        /\ DelayTest(TimeoutValue, t_baseline)) => Len(t_tests) = 2
  /\ (t_pc = "done" /\ Len(t_tests) = 2 /\ t_tests[2].timed_out
        /\ DelayTest(TimeoutValue, t_baseline)) => t_result # TimeNone

\* both payload requests timed out and the Finding was returned
TwoTimeoutsGiveFinding ==
  /\ t_pc = "done"
  /\ Len(t_tests) = 2
  /\ t_tests[1].timed_out
  /\ t_tests[2].timed_out
  /\ t_result # TimeNone

\* C34: the rate-limited scanner returns a time-based Finding only when the
\* target itself took longer than the threshold to answer the delay payload;
\* time spent waiting for a rate-limiter token, in rate-limiter backoff or in
\* retry backoff is not counted as injected delay.
FindingNeedsSlowTarget == d_result = "finding" => d_target > DelayThreshold

\* C35: every scan_url call starts from fresh scan-scoped state: a second call
\* on the same scanner begins with the host's rate and consecutive-error count
\* of a new scanner, and dispatches the URLs the first call dispatched.
SecondScanLikeFirst ==
  r_scan = 2 =>
    /\ r_start_rate = rate_limit
    /\ r_start_errors = 0
    /\ r_pc = "returned" => r_dispatched = r_first

\* C36: in _run_scan a scanner that exceeds its 2-minute sub-deadline, or that
\* raises, never makes the scan fail: the scanners are begun in the order of the
\* request, a job that ended before the overall deadline has begun every one of
\* them, and it ended with status completed unless the overall deadline passed
\* or the orchestration itself failed.
ScannerFailureNotFatal ==
  /\ Len(job_ran) <= Len(job_scanners)
  /\ \A i \in 1..Len(job_ran) : job_ran[i] = job_scanners[i]
  /\ (job_pc = "ended" /\ job_elapsed < OverallDeadline) => job_ran = job_scanners
  /\ job_status = "failed" =>
       job_elapsed >= OverallDeadline \/ job_message = "Scan failed"
  /\ (job_pc = "ended" /\ job_elapsed < OverallDeadline /\ job_message # "Scan failed") =>
       job_status = "completed"

\* a job of three scanners, one timed out and one raised, ended completed
CompletedDespiteTimeoutAndError ==
  /\ job_pc = "ended"
  /\ job_status = "completed"
  /\ Len(job_ran) = 3
  /\ \E i, j \in 1..Len(job_results) :
       /\ job_results[i].name = "Scanner Timeout"
       /\ job_results[j].name = "Scanner Error"

\* C37: when the overall 5-minute deadline fires in _run_scan, the findings of
\* the scanners that completed before it are saved as the scan's result.
DeadlineKeepsFindings ==
  (job_pc = "ended" /\ job_message = "Scan timed out after 5 minutes"
     /\ job_results # << >>) => job_saved = job_results

\* C40: the progress value of a scan job never decreases: every progress
\* update of _run_scan writes a value at least as large as the one before.
ProgressNeverDecreases == [][job_progress' >= job_progress]_vars

\* C38: a wait_for_token call by a single waiter returns after a finite time,
\* from every rate-limiter state that report_success and report_error calls
\* leave (any count of consecutive errors, any mix of error kinds, the rate at
\* its minimum), and when it returns exactly one token has been taken from the
\* bucket for the call.
TokenWaitReturns ==
  /\ (req_pc \in {"backoff", "acquire"}) ~> (req_pc = "perform")
  /\ [](req_pc = "perform" => wait_taken = 1)
  /\ [](req_pc \in {"backoff", "acquire"} => wait_taken = 0)

\* at 0.1 req/s with an empty bucket the call slept between two acquire calls
\* and returned with its one token
WaitedAtMinimumRate ==
  /\ req_pc = "perform"
  /\ wait_polled
  /\ wait_taken = 1
  /\ domain_limits[RequestHost] = min_rate_limit

=============================================================================
